---- MODULE Spec2Model ----
(***************************************************************************)
(* lampControl: the device service (connection cache, write-with-retry,    *)
(* semantic setters) and the Twitch effect orchestrator (cooldowns,        *)
(* snapshot before override, timed revert).                                *)
(*                                                                         *)
(* Every goroutine of the program is a process with a program counter.     *)
(* A step is one critical section (a region under one mutex) or one        *)
(* blocking call of the link adapter.                                     *)
(***************************************************************************)
EXTENDS Integers, Sequences, FiniteSets, TLC

\* ---------------------------------------------------------------- bounds
Addrs == {"a1"}                    \* device addresses the adapter can see
TwoAddrs == {"a1", "a2"}           \* the same with a second lamp in reach
Users == {"u", "v"}                \* chat users
NumHandles == 3                    \* connection handles alive at once
NumTimers == 2                     \* revert timers alive at once
MaxTime == 2                       \* the clock stops after so many seconds
Second == 2                        \* ticks of the clock in a second
Clients == {"c1", "c2"}            \* websocket observers
SendCap == 1                       \* room in an observer's outbound queue
BroadcastCap == 1                  \* room in the hub's broadcast channel
ProcessCap == 2                    \* room in the hub's process channel

\* input sets of the enumerated calls
CmdInputs == {"red", "blue", "rainbow", "bogus"}
RGBInputs == {<<0, 255, 0>>}
LevelInputs == {127}
WBInputs == {<<80, 80>>}
EffectInputs == {<<1, 50>>}
ByteInputs == {0, 1, 127, 128, 255}  \* uint8 arguments of the encoders

\* ------------------------------------------------------------- processes
IrcProc == -1                      \* the IRC reader goroutine (onMessage)
UsrProc == -2                      \* a direct caller of the setters
HubProc == -3                      \* the hub's event loop (Hub.Run)
IrcProc2 == -4                     \* the reader of an IRC client replaced since
IrcProcs == {IrcProc, IrcProc2}
Timers == 1..NumTimers             \* time.AfterFunc goroutines
Handles == 1..NumHandles
Procs == IrcProcs \cup {UsrProc, HubProc} \cup Timers

Nil == <<>>                        \* a nil pointer; a set pointer is <<v>>
NoHandle == 0
NoTimer == 0
NoProc == 0
NoClient == ""
NoAddr == ""

\* ------------------------------------------- protocol: ELK-BLEDOM frames
\* frame constants, command codes and colour modes of package protocol
StartByte == 126                   \* 0x7E
EndByte == 239                     \* 0xEF
SeqByte == 0
CmdBrightness == 1
CmdPower == 4
CmdColor == 5
CmdEffect == 3
ColorModeSingle == 1
ColorModeWhite == 2
ColorModeRGB == 3

\* var cmd Command: a [9]byte, zeroed (bytes 0..8 of the code are the
\* elements 1..9 here)
ZeroCommand == [i \in 1..9 |-> 0]

\* a power encoder with the two branches exchanged
PowerCommandInverted(on) ==
  IF on THEN <<StartByte, SeqByte, CmdPower, 0, 0, 0, 255, 0, EndByte>>
        ELSE <<StartByte, SeqByte, CmdPower, 240, 0, 1, 255, 0, EndByte>>

\* protocol.NewPowerCommand
NewPowerCommand(on) ==
  LET head == [ZeroCommand EXCEPT ![1] = StartByte, ![2] = SeqByte,
                                  ![3] = CmdPower]
      body == IF on THEN [head EXCEPT ![4] = 240, ![5] = 0, ![6] = 1]
                    ELSE [head EXCEPT ![4] = 0, ![5] = 0, ![6] = 0]
  IN  [body EXCEPT ![7] = 255, ![8] = 0, ![9] = EndByte]

\* protocol.NewRGBCommand
NewRGBCommand(r, g, b) ==
  <<StartByte, SeqByte, CmdColor, ColorModeRGB, r, g, b, 0, EndByte>>

\* protocol.NewBrightnessCommand
NewBrightnessCommand(level) ==
  <<StartByte, SeqByte, CmdBrightness, level, 255, 255, 255, 0, EndByte>>

\* a white balance encoder that writes cold before warm
WhiteBalanceColdFirst(warm, cold) ==
  <<StartByte, SeqByte, CmdColor, ColorModeWhite, cold, warm, 255, 0,
    EndByte>>

\* protocol.NewWhiteBalanceCommand
NewWhiteBalanceCommand(warm, cold) ==
  <<StartByte, SeqByte, CmdColor, ColorModeWhite, warm, cold, 255, 0,
    EndByte>>

\* protocol.NewSingleColorCommand
NewSingleColorCommand(index) ==
  <<StartByte, SeqByte, CmdColor, ColorModeSingle, index, 255, 255, 0,
    EndByte>>

\* an effect encoder that puts its arguments behind the padding
EffectCommandTrailing(effect, speed) ==
  <<StartByte, SeqByte, CmdEffect, 255, 255, 255, effect, speed, EndByte>>

\* protocol.NewEffectCommand
NewEffectCommand(effect, speed) ==
  <<StartByte, SeqByte, CmdEffect, effect, speed, 255, 255, 0, EndByte>>

\* Command.Bytes: the slice c[:] of the array
Bytes(c) == SubSeq(c, 1, Len(c))

\* ------------------------------------------------- domain: device state
\* domain.NewDeviceState
NewDeviceState ==
  [PowerOn |-> FALSE, Brightness |-> 255, RGB |-> <<255, 255, 255>>,
   WhiteBalance |-> Nil, Effect |-> Nil, EffectSpeed |-> Nil]

\* domain.NewDevice
NewDevice == [Connected |-> FALSE, State |-> NewDeviceState]

\* the state update of DeviceService.SetPower
SetPowerState(state, on) == [state EXCEPT !.PowerOn = on]

\* SetColor forgetting to clear the effect
SetColorKeepsEffect(state, r, g, b) ==
  [state EXCEPT !.RGB = <<r, g, b>>, !.WhiteBalance = Nil]

\* the state update of DeviceService.SetColor
SetColorState(state, r, g, b) ==
  [state EXCEPT !.RGB = <<r, g, b>>, !.WhiteBalance = Nil, !.Effect = Nil]

\* the state update of DeviceService.SetBrightness
SetBrightnessState(state, level) == [state EXCEPT !.Brightness = level]

\* the state update of DeviceService.SetWhiteBalance
SetWhiteBalanceState(state, warm, cold) ==
  [state EXCEPT !.WhiteBalance = <<warm, cold>>, !.RGB = Nil, !.Effect = Nil]

\* the state update of DeviceService.SetEffect
SetEffectState(state, effect, speed) ==
  [state EXCEPT !.Effect = <<effect>>, !.EffectSpeed = <<speed>>]

\* a setter call in progress: which setter, on which address, with what
NoCall == [op |-> "none", addr |-> NoAddr, arg |-> <<>>]

ApplySetter(state, c) ==
  CASE c.op = "SetPower" -> SetPowerState(state, c.arg[1])
    [] c.op = "SetColor" -> SetColorState(state, c.arg[1], c.arg[2], c.arg[3])
    [] c.op = "SetBrightness" -> SetBrightnessState(state, c.arg[1])
    [] c.op = "SetWhiteBalance" ->
         SetWhiteBalanceState(state, c.arg[1], c.arg[2])
    [] c.op = "SetEffect" -> SetEffectState(state, c.arg[1], c.arg[2])
    [] OTHER -> state

\* ------------------------------------------------ domain: twitch command
ColorMap ==
  [red |-> <<255, 0, 0>>, green |-> <<0, 255, 0>>, blue |-> <<0, 0, 255>>,
   yellow |-> <<255, 255, 0>>, cyan |-> <<0, 255, 255>>,
   magenta |-> <<255, 0, 255>>, purple |-> <<128, 0, 128>>,
   orange |-> <<255, 165, 0>>, pink |-> <<255, 192, 203>>,
   white |-> <<255, 255, 255>>]

EffectMap == [rainbow |-> 37, strobe |-> 38, fade |-> 39, pulse |-> 40]

IsColor(command) == command \in DOMAIN ColorMap
IsEffect(command) == command \in DOMAIN EffectMap
GetRGB(command) == ColorMap[command]
GetEffect(command) == EffectMap[command]

\* ------------------------------------------------------------- constants
retryAttempts == 3
DefaultEffectSpeed == 128
GlobalCooldown == 1
UserCooldown == 2

\* domain.NewTwitchConfig: the cooldowns and the bypass flags
NewTwitchConfig ==
  [GlobalCooldown |-> GlobalCooldown * Second,
   UserCooldown |-> UserCooldown * Second,
   VIPBypassCooldown |-> TRUE, SubBypassCooldown |-> TRUE,
   ModBypassCooldown |-> TRUE]

\* errors: the adapter's error kind and the attempt that produced it
NoErr == [kind |-> "nil", attempt |-> 0]
OkRet == [ok |-> TRUE, wraps |-> NoErr]

\* writeCommand ending in "return nil" after the loop
ReturnsNil(err) == OkRet

\* fmt.Errorf("failed after %d attempts: %w", s.retryAttempts, lastErr)
FailedAfter(err) == [ok |-> FALSE, wraps |-> err]

\* the loop condition with <= for <
OneMoreAttempt(att) == att <= retryAttempts

\* writeCommand's loop condition: attempt < s.retryAttempts
MoreAttempts(att) == att < retryAttempts


\* ----------------------------------------------------------------- state
VARIABLES
  devices,            \* DeviceService.devices: address -> Device
  connections,        \* DeviceService.connections: address -> handle
  selectedDevice,     \* ServerState.selectedDevice ("" = none)
  snapshots,          \* StateSnapshotService.snapshots: address -> State
  activeEffect,       \* TwitchService.activeEffect (Nil or <<marker>>)
  timers,             \* each revert timer: unused, pending, stopped, fired
  timerAddr,          \* the deviceAddr captured by each timer's closure
  ircOn,              \* the IRC client delivers chat messages
  ircClient,          \* TwitchService.ircClient: its reader goroutine
  now,                \* the clock
  LastGlobalCommand,  \* CooldownState.LastGlobalCommand (Nil = zero time)
  UserLastCommand,    \* CooldownState.UserLastCommand: user -> time
  reply,              \* the chat reply sent by the step just taken
  link,               \* what the step just taken did at the link adapter
  pc,                 \* position of each goroutine
  call,               \* the setter call each goroutine is in
  attempt,            \* writeCommand: loop variable
  conn,               \* writeCommand: handle of the current attempt
  lastErr,            \* writeCommand: lastErr
  ret,                \* writeCommand: returned value
  cmd,                \* handleCommand: the TwitchCommand being handled
  deviceAddr,         \* executeCommand: deviceAddr
  shouldSnapshot,     \* executeCommand: shouldSnapshot
  timer,              \* executeCommand: timer
  failedConn,         \* history: handle whose write failed last attempt
  chain,              \* history: the override chain in progress
  clients,            \* Hub.clients: the registered observers
  send,               \* Client.send of each observer: its outbound queue
  broadcast,          \* Hub.broadcast: the channel's buffer
  hubClient,          \* Hub.handleCommand: client
  config,             \* TwitchStorage.config
  packet,             \* the Command an encoder of package protocol returned
  mu,                 \* DeviceService.mu: the goroutine holding it, if any
  process             \* Hub.process: the observers' frames not yet handled

devVars == <<devices, connections, selectedDevice>>
ircVars == <<ircOn, ircClient>>
twVars == <<snapshots, activeEffect, timers, timerAddr, ircVars>>
cdVars == <<now, LastGlobalCommand, UserLastCommand>>
wcVars == <<call, attempt, conn, lastErr, ret, failedConn>>
exVars == <<cmd, deviceAddr, shouldSnapshot, timer>>
hubVars == <<clients, send, broadcast, hubClient>>
vars == <<devices, connections, selectedDevice, snapshots, activeEffect,
          timers, timerAddr, ircOn, ircClient, now, LastGlobalCommand,
          UserLastCommand,
          reply, link, pc, call, attempt, conn, lastErr, ret, cmd, deviceAddr,
          shouldSnapshot, timer, failedConn, chain, clients, send, broadcast,
          hubClient, config, packet, mu, process>>

\* no Command built yet
NoPacket == <<>>

NoCmd == [Username |-> "", Command |-> ""]
\* what a step of the device service did at the link: a call of
\* bluetooth.Adapter (Connect(address), Write(conn, ...) or
\* Disconnect(conn)) with the handle it returned or was given and its
\* outcome; or no call, the connection map having the answer ("cached":
\* connect returns the recorded handle, "absent": Disconnect finds none)
AdapterOps == {"Connect", "Write", "Disconnect"}
NoLink == [op |-> "none", addr |-> NoAddr, handle |-> NoHandle, ok |-> TRUE]
AdapterCall(op, a, h, ok) == [op |-> op, addr |-> a, handle |-> h, ok |-> ok]

NoReply == [kind |-> "none", user |-> "", remaining |-> 0, seconds |-> 0]
FailedReply(u) ==
  [kind |-> "failed", user |-> u, remaining |-> 0, seconds |-> 0]

\* make(chan []byte, n) of a new Client: empty and open
NewQueue == [buf |-> <<>>, closed |-> FALSE]

\* history of the override chain: the device state when its first command
\* arrived, how many overrides it installed (2 stands for 2 or more),
\* whether it ran undisturbed, and where it stands
NoChain ==
  [base |-> Nil, accepted |-> 0, clean |-> FALSE, phase |-> "idle"]

\* the chain is over without a restore
Ended(ch) ==
  [ch EXCEPT !.base = Nil, !.accepted = 0, !.clean = FALSE, !.phase = "idle"]

\* of a disturbed chain nothing more is recorded
Undisturbed(ch) == IF ch.clean THEN ch ELSE Ended(ch)

\* NewDeviceService, NewTwitchService, NewCooldownManager, NewServerState
NewServer ==
  /\ devices = <<>>
  /\ connections = <<>>
  /\ selectedDevice = NoAddr
  /\ snapshots = <<>>
  /\ activeEffect = Nil
  /\ timers = [t \in Timers |-> "unused"]
  /\ timerAddr = [t \in Timers |-> NoAddr]
  /\ ircOn = FALSE
  /\ ircClient = NoProc
  /\ now = 0
  /\ LastGlobalCommand = Nil
  /\ UserLastCommand = <<>>
  /\ reply = NoReply
  /\ link = NoLink
  /\ pc = [p \in Procs |-> "idle"]
  /\ call = [p \in Procs |-> NoCall]
  /\ attempt = [p \in Procs |-> 0]
  /\ conn = [p \in Procs |-> NoHandle]
  /\ lastErr = [p \in Procs |-> NoErr]
  /\ ret = [p \in Procs |-> OkRet]
  /\ cmd = [p \in IrcProcs |-> NoCmd]
  /\ deviceAddr = [p \in IrcProcs |-> NoAddr]
  /\ shouldSnapshot = [p \in IrcProcs |-> FALSE]
  /\ timer = [p \in IrcProcs |-> NoTimer]
  /\ failedConn = [p \in Procs |-> NoHandle]
  /\ chain = NoChain
  /\ clients = {}
  /\ send = [c \in Clients |-> NewQueue]
  /\ broadcast = <<>>
  /\ hubClient = NoClient
  /\ packet = NoPacket
  /\ mu = NoProc
  /\ process = <<>>

\* NewTwitchStorage with no configuration file: the default configuration
Init ==
  /\ NewServer
  /\ config = NewTwitchConfig

\* the configurations a file can hold: the global cooldown on or off,
\* each of two bypass flags on or off
Configs ==
  {[NewTwitchConfig EXCEPT !.GlobalCooldown = g, !.ModBypassCooldown = m,
                           !.VIPBypassCooldown = v] :
     g \in {0, GlobalCooldown * Second}, m \in BOOLEAN, v \in BOOLEAN}

\* NewTwitchStorage: storage.load() of a saved configuration
InitLoaded ==
  /\ NewServer
  /\ config \in Configs

\* map helpers (Go maps with a varying key set)
Has(m, k) == k \in DOMAIN m
Put(m, k, v) == [x \in DOMAIN m \cup {k} |-> IF x = k THEN v ELSE m[x]]
Del(m, k) == [x \in DOMAIN m \ {k} |-> m[x]]


\* ------------------------------------------------------- link adapter
\* A handle is a *bluetooth.Connection: a fresh one is distinct from every
\* handle something still points to.
Referenced ==
  {connections[a] : a \in DOMAIN connections}
    \cup {conn[p] : p \in Procs} \cup {failedConn[p] : p \in Procs}

FreeHandles == Handles \ Referenced

NewHandle == CHOOSE h \in FreeHandles : \A g \in FreeHandles : h <= g

\* a connect that catalogues the address it has connected
CataloguesAddress(devs, a) ==
  Put(devs, a, [Connected |-> TRUE,
                State |-> IF Has(devs, a) THEN devs[a].State
                          ELSE NewDeviceState])

\* Device.MarkConnected / Device.MarkDisconnected, on a catalogued device
MarkConnected(devs, a) ==
  IF Has(devs, a) THEN [devs EXCEPT ![a].Connected = TRUE] ELSE devs

MarkDisconnected(devs, a) ==
  IF Has(devs, a) THEN [devs EXCEPT ![a].Connected = FALSE] ELSE devs

\* ---------------------------------------------------- DeviceService
\* where a goroutine continues when its setter has returned
AfterSetter(p, ok) ==
  IF p \in IrcProcs THEN (IF ok THEN "ex_timer" ELSE "idle")
  ELSE IF p = UsrProc THEN "returned"
  ELSE IF p = HubProc THEN "hub_done"
  ELSE "rs_clear"

\* entry of a setter: the frame is encoded and writeCommand starts
EnterSetter(p, c) ==
  /\ call' = [call EXCEPT ![p] = c]
  /\ attempt' = [attempt EXCEPT ![p] = 0]
  /\ conn' = [conn EXCEPT ![p] = NoHandle]
  /\ lastErr' = [lastErr EXCEPT ![p] = NoErr]
  /\ ret' = [ret EXCEPT ![p] = OkRet]
  /\ failedConn' = [failedConn EXCEPT ![p] = NoHandle]

\* a connect that asks the adapter whatever the map holds
NeverCached(a) == FALSE

\* connect: if conn, exists := s.connections[address]; exists
Cached(a) == Has(connections, a)

\* writeCommand, one pass of the loop, first half: s.connect(ctx, address)
\* (the whole of connect runs under s.mu, the adapter's Connect included)
connect(p) ==
  /\ pc[p] = "wc_connect"
  /\ MoreAttempts(attempt[p])
  /\ LET a == call[p].addr IN
       \/ \* a cached handle: returned as it is
          /\ Cached(a)
          /\ conn' = [conn EXCEPT ![p] = connections[a]]
          /\ pc' = [pc EXCEPT ![p] = "wc_write"]
          /\ link' = AdapterCall("cached", a, connections[a], TRUE)
          /\ UNCHANGED <<connections, devices, lastErr, attempt, failedConn>>
       \/ \* bleAdapter.Connect succeeds
          /\ ~Cached(a)
          /\ FreeHandles # {}
          /\ connections' = Put(connections, a, NewHandle)
          /\ devices' = MarkConnected(devices, a)
          /\ conn' = [conn EXCEPT ![p] = NewHandle]
          /\ pc' = [pc EXCEPT ![p] = "wc_write"]
          /\ link' = AdapterCall("Connect", a, NewHandle, TRUE)
          /\ UNCHANGED <<lastErr, attempt, failedConn>>
       \/ \* bleAdapter.Connect fails: lastErr = err; sleep; continue
          /\ ~Cached(a)
          /\ link' = AdapterCall("Connect", a, NoHandle, FALSE)
          /\ lastErr' = [lastErr EXCEPT
               ![p] = [kind |-> "ErrConnectionFailed",
                       attempt |-> attempt[p] + 1]]
          /\ attempt' = [attempt EXCEPT ![p] = attempt[p] + 1]
          /\ failedConn' = [failedConn EXCEPT ![p] = NoHandle]
          /\ conn' = [conn EXCEPT ![p] = NoHandle]
          /\ UNCHANGED <<connections, devices, pc>>
  /\ UNCHANGED <<selectedDevice, call, ret, twVars, cdVars, exVars, chain>>
  /\ reply' = NoReply
  /\ UNCHANGED <<hubVars, config, packet, mu, process>>

\* writeCommand, second half of a pass: s.bleAdapter.Write on conn
\* (outside every lock)
Write(p) ==
  /\ pc[p] = "wc_write"
  /\ \/ \* err == nil: return nil
        /\ ret' = [ret EXCEPT ![p] = OkRet]
        /\ pc' = [pc EXCEPT ![p] = "wc_done"]
        /\ link' = AdapterCall("Write", call[p].addr, conn[p], TRUE)
        /\ UNCHANGED <<lastErr, failedConn>>
     \/ \* lastErr = err, then s.Disconnect(address)
        /\ lastErr' = [lastErr EXCEPT
             ![p] = [kind |-> "ErrWriteFailed", attempt |-> attempt[p] + 1]]
        /\ failedConn' = [failedConn EXCEPT ![p] = conn[p]]
        /\ pc' = [pc EXCEPT ![p] = "wc_disconnect"]
        /\ link' = AdapterCall("Write", call[p].addr, conn[p], FALSE)
        /\ UNCHANGED ret
  /\ UNCHANGED <<devVars, call, attempt, conn, twVars, cdVars, exVars, chain>>
  /\ reply' = NoReply
  /\ UNCHANGED <<hubVars, config, packet, mu, process>>

\* the handle the map holds for an address (none: the nil the map yields)
Recorded(a) == IF Has(connections, a) THEN connections[a] ELSE NoHandle

\* a Disconnect that goes to the adapter whatever the map holds
AlwaysDisconnects(a) == FALSE

\* Disconnect: conn, exists := s.connections[address]; if !exists
NoConnection(a) == ~Has(connections, a)

\* DeviceService.Disconnect(address), called by writeCommand after a failed
\* write; its error is dropped. Then sleep and the next pass.
Disconnect(p) ==
  /\ pc[p] = "wc_disconnect"
  /\ LET a == call[p].addr IN
       \/ \* no connection recorded: already disconnected, return nil
          /\ NoConnection(a)
          /\ link' = AdapterCall("absent", a, NoHandle, TRUE)
          /\ UNCHANGED <<connections, devices>>
       \/ \* bleAdapter.Disconnect succeeds
          /\ ~NoConnection(a)
          /\ link' = AdapterCall("Disconnect", a, Recorded(a), TRUE)
          /\ connections' = Del(connections, a)
          /\ devices' = MarkDisconnected(devices, a)
       \/ \* bleAdapter.Disconnect fails: the handle stays in the map
          /\ ~NoConnection(a)
          /\ link' = AdapterCall("Disconnect", a, Recorded(a), FALSE)
          /\ UNCHANGED <<connections, devices>>
  /\ attempt' = [attempt EXCEPT ![p] = attempt[p] + 1]
  /\ conn' = [conn EXCEPT ![p] = NoHandle]
  /\ pc' = [pc EXCEPT ![p] = "wc_connect"]
  /\ UNCHANGED <<selectedDevice, call, lastErr, ret, failedConn, twVars,
                 cdVars, exVars, chain>>
  /\ reply' = NoReply
  /\ UNCHANGED <<hubVars, config, packet, mu, process>>

\* writeCommand: the loop ends with every attempt failed
Exhausted(p) ==
  /\ pc[p] = "wc_connect"
  /\ ~MoreAttempts(attempt[p])
  /\ ret' = [ret EXCEPT ![p] = FailedAfter(lastErr[p])]
  /\ pc' = [pc EXCEPT ![p] = "wc_done"]
  /\ UNCHANGED <<devVars, call, attempt, conn, lastErr, failedConn, twVars,
                 cdVars, exVars, chain>>
  /\ reply' = NoReply
  /\ link' = NoLink
  /\ UNCHANGED <<hubVars, config, packet, mu, process>>


\* writeCommand run from its first statement to its return with no other
\* goroutine touching the connection map in between: every result the
\* loop can have, from pass att on with lastErr = err
RECURSIVE Runs(_, _, _, _, _)
Runs(conns, devs, a, att, err) ==
  IF ~MoreAttempts(att)
    THEN {[ret |-> FailedAfter(err), connections |-> conns, devices |-> devs]}
  ELSE
    LET cerr == [kind |-> "ErrConnectionFailed", attempt |-> att + 1]
        werr == [kind |-> "ErrWriteFailed", attempt |-> att + 1]
        free == Handles \ ({conns[x] : x \in DOMAIN conns}
                             \cup {conn[q] : q \in Procs}
                             \cup {failedConn[q] : q \in Procs})
        fresh == CHOOSE h \in free : \A g \in free : h <= g
        \* s.connect: the cached handle, a new one, or an error
        opened ==
          IF Has(conns, a) THEN {<<conns, devs>>}
          ELSE IF free # {}
            THEN {<<Put(conns, a, fresh), MarkConnected(devs, a)>>}
            ELSE {}
        connectFailed ==
          IF Has(conns, a) THEN {} ELSE Runs(conns, devs, a, att + 1, cerr)
        \* bleAdapter.Write: nil, or an error and then s.Disconnect, whose
        \* adapter call succeeds or fails
        written(cd) ==
          {[ret |-> OkRet, connections |-> cd[1], devices |-> cd[2]]}
            \cup Runs(Del(cd[1], a), MarkDisconnected(cd[2], a), a,
                       att + 1, werr)
            \cup Runs(cd[1], cd[2], a, att + 1, werr)
    IN connectFailed \cup UNION {written(cd) : cd \in opened}

\* writeCommand as one step of the calling goroutine (the adapter calls
\* made inside the step are not reported in link)
writeCommand(p) ==
  /\ pc[p] = "wc_connect"
  /\ attempt[p] = 0
  /\ \E r \in Runs(connections, devices, call[p].addr, 0, NoErr) :
       /\ ret' = [ret EXCEPT ![p] = r.ret]
       /\ connections' = r.connections
       /\ devices' = r.devices
  /\ pc' = [pc EXCEPT ![p] = "wc_done"]
  /\ UNCHANGED <<selectedDevice, call, attempt, conn, lastErr, failedConn,
                 twVars, cdVars, exVars, chain>>
  /\ reply' = NoReply
  /\ link' = NoLink
  /\ UNCHANGED <<hubVars, config, packet, mu, process>>

\* a setter storing the new state whatever writeCommand returned
Unchecked(p) == TRUE

\* if err := s.writeCommand(ctx, address, cmd); err != nil { return err }
Confirmed(p) == ret[p].ok

\* a setter returns: on a failed writeCommand the error, as it is; on
\* success the stored state is updated under s.mu
SetterReturn(p) ==
  /\ pc[p] = "wc_done"
  /\ link' = NoLink
  /\ LET a == call[p].addr
         ok == Confirmed(p) IN
       /\ devices' =
            IF ok /\ Has(devices, a)
              THEN [devices EXCEPT ![a].State = ApplySetter(@, call[p])]
              ELSE devices
       /\ pc' = [pc EXCEPT ![p] = AfterSetter(p, ok)]
       /\ reply' =
            IF p \in IrcProcs /\ ~ok
              THEN FailedReply(cmd[p].Username) ELSE NoReply
       /\ cmd' = IF p \in IrcProcs /\ ~ok
                   THEN [cmd EXCEPT ![p] = NoCmd] ELSE cmd
       /\ deviceAddr' = IF p \in IrcProcs /\ ~ok
                          THEN [deviceAddr EXCEPT ![p] = NoAddr]
                          ELSE deviceAddr
       /\ shouldSnapshot' = IF p \in IrcProcs /\ ~ok
                              THEN [shouldSnapshot EXCEPT ![p] = FALSE]
                              ELSE shouldSnapshot
       /\ chain' =
            IF p \in IrcProcs /\ ~ok /\ chain.accepted = 0 THEN Ended(chain)
            ELSE Undisturbed(
                   [chain EXCEPT
                      !.clean = IF ok /\ p \notin {UsrProc, HubProc}
                                  THEN @ ELSE FALSE])
  /\ call' = [call EXCEPT ![p] = NoCall]
  /\ attempt' = [attempt EXCEPT ![p] = 0]
  /\ conn' = [conn EXCEPT ![p] = NoHandle]
  /\ lastErr' = [lastErr EXCEPT ![p] = NoErr]
  /\ failedConn' = [failedConn EXCEPT ![p] = NoHandle]
  /\ ret' = IF p \in {UsrProc, HubProc}
              THEN ret ELSE [ret EXCEPT ![p] = OkRet]
  /\ UNCHANGED <<connections, selectedDevice, timer, twVars, cdVars>>
  /\ UNCHANGED <<hubVars, config, packet, mu, process>>

\* the caller of the setter has its result
UsrReturn ==
  /\ pc[UsrProc] = "returned"
  /\ pc' = [pc EXCEPT ![UsrProc] = "idle"]
  /\ ret' = [ret EXCEPT ![UsrProc] = OkRet]
  /\ reply' = NoReply
  /\ link' = NoLink
  /\ UNCHANGED <<devVars, twVars, cdVars, exVars, call, attempt, conn,
                 lastErr, failedConn, chain>>
  /\ UNCHANGED <<hubVars, config, packet, mu, process>>

\* the setters as called by the hub, the REST handlers and the CLI
UsrEnter(c) ==
  /\ pc[UsrProc] = "idle"
  /\ EnterSetter(UsrProc, c)
  /\ pc' = [pc EXCEPT ![UsrProc] = "wc_connect"]
  /\ chain' = Ended(chain)
  /\ UNCHANGED <<devVars, twVars, cdVars, exVars>>
  /\ reply' = NoReply
  /\ link' = NoLink
  /\ UNCHANGED <<hubVars, config, packet, mu, process>>

SetPower ==
  \E a \in Addrs, on \in BOOLEAN :
    UsrEnter([op |-> "SetPower", addr |-> a, arg |-> <<on>>])

SetColor ==
  \E a \in Addrs, rgb \in RGBInputs :
    UsrEnter([op |-> "SetColor", addr |-> a, arg |-> rgb])

SetBrightness ==
  \E a \in Addrs, level \in LevelInputs :
    UsrEnter([op |-> "SetBrightness", addr |-> a, arg |-> <<level>>])

SetWhiteBalance ==
  \E a \in Addrs, wb \in WBInputs :
    UsrEnter([op |-> "SetWhiteBalance", addr |-> a, arg |-> wb])

SetEffect ==
  \E a \in Addrs, e \in EffectInputs :
    UsrEnter([op |-> "SetEffect", addr |-> a, arg |-> e])

\* the orders in which a Go map's keys can be collected into a slice
Orders(S) ==
  {s \in [1..Cardinality(S) -> S] : \A i, j \in DOMAIN s : s[i] = s[j] => i = j}

\* DeviceService.DisconnectAll: the recorded addresses are collected under
\* s.mu, then Disconnect is called on each in turn
DisconnectAll ==
  /\ pc[UsrProc] = "idle"
  /\ \E addresses \in Orders(DOMAIN connections) :
       EnterSetter(UsrProc, [op |-> "DisconnectAll", addr |-> NoAddr,
                             arg |-> addresses])
  /\ pc' = [pc EXCEPT ![UsrProc] = "da_loop"]
  /\ chain' = Ended(chain)
  /\ reply' = NoReply
  /\ link' = NoLink
  /\ UNCHANGED <<devVars, twVars, cdVars, exVars, hubVars, config, packet, mu, process>>

\* DisconnectAll, one pass of its loop: s.Disconnect(addr), the error kept
\* in lastErr
DaDisconnect ==
  /\ pc[UsrProc] = "da_loop"
  /\ call[UsrProc].arg # <<>>
  /\ LET a == Head(call[UsrProc].arg) IN
       \/ \* no connection recorded any more: return nil
          /\ NoConnection(a)
          /\ link' = AdapterCall("absent", a, NoHandle, TRUE)
          /\ UNCHANGED <<connections, devices, lastErr>>
       \/ \* bleAdapter.Disconnect succeeds
          /\ ~NoConnection(a)
          /\ link' = AdapterCall("Disconnect", a, Recorded(a), TRUE)
          /\ connections' = Del(connections, a)
          /\ devices' = MarkDisconnected(devices, a)
          /\ UNCHANGED lastErr
       \/ \* bleAdapter.Disconnect fails: the handle stays in the map
          /\ ~NoConnection(a)
          /\ link' = AdapterCall("Disconnect", a, Recorded(a), FALSE)
          /\ lastErr' = [lastErr EXCEPT
               ![UsrProc] = [kind |-> "ErrDisconnectFailed", attempt |-> 0]]
          /\ UNCHANGED <<connections, devices>>
  /\ call' = [call EXCEPT ![UsrProc].arg = Tail(@)]
  /\ reply' = NoReply
  /\ UNCHANGED <<selectedDevice, pc, attempt, conn, ret, failedConn, twVars,
                 cdVars, exVars, chain, hubVars, config, packet, mu, process>>

\* DisconnectAll: return lastErr
DaReturn ==
  /\ pc[UsrProc] = "da_loop"
  /\ call[UsrProc].arg = <<>>
  /\ ret' = [ret EXCEPT ![UsrProc] =
               IF lastErr[UsrProc] = NoErr
                 THEN OkRet ELSE [ok |-> FALSE, wraps |-> lastErr[UsrProc]]]
  /\ lastErr' = [lastErr EXCEPT ![UsrProc] = NoErr]
  /\ call' = [call EXCEPT ![UsrProc] = NoCall]
  /\ pc' = [pc EXCEPT ![UsrProc] = "returned"]
  /\ reply' = NoReply
  /\ link' = NoLink
  /\ UNCHANGED <<devVars, attempt, conn, failedConn, twVars, cdVars, exVars,
                 chain, hubVars, config, packet, mu, process>>

\* a scan that rebuilds the catalogue from what it has just seen
Rebuilt(devs, results) == [a \in results |-> NewDevice]

\* Scan, the loop over the results: update or create device
Merged(devs, results) ==
  [a \in DOMAIN devs \cup results |->
     IF Has(devs, a) THEN devs[a] ELSE NewDevice]

\* connect in two steps, for the time s.mu is held: s.mu.Lock() and the
\* look-up of the connection map. A recorded handle is returned and the
\* lock released (defer); otherwise the goroutine goes on into
\* bleAdapter.Connect with the lock held
ConnectLock(p) ==
  /\ pc[p] = "wc_connect"
  /\ MoreAttempts(attempt[p])
  /\ mu = NoProc
  /\ LET a == call[p].addr IN
       IF Cached(a)
         THEN /\ conn' = [conn EXCEPT ![p] = connections[a]]
              /\ pc' = [pc EXCEPT ![p] = "wc_write"]
              /\ link' = AdapterCall("cached", a, connections[a], TRUE)
              /\ UNCHANGED mu
         ELSE /\ pc' = [pc EXCEPT ![p] = "cn_adapter"]
              /\ mu' = p
              /\ link' = NoLink
              /\ UNCHANGED conn
  /\ reply' = NoReply
  /\ UNCHANGED <<devVars, call, attempt, lastErr, ret, failedConn, twVars,
                 cdVars, exVars, chain, hubVars, config, packet, process>>

\* connect, second step: bleAdapter.Connect returns (it can take up to
\* connectTimeout), the handle is recorded, the deferred Unlock runs
ConnectAdapter(p) ==
  /\ pc[p] = "cn_adapter"
  /\ mu = p
  /\ LET a == call[p].addr IN
       \/ /\ FreeHandles # {}
          /\ connections' = Put(connections, a, NewHandle)
          /\ devices' = MarkConnected(devices, a)
          /\ conn' = [conn EXCEPT ![p] = NewHandle]
          /\ pc' = [pc EXCEPT ![p] = "wc_write"]
          /\ link' = AdapterCall("Connect", a, NewHandle, TRUE)
          /\ UNCHANGED <<lastErr, attempt, failedConn>>
       \/ /\ link' = AdapterCall("Connect", a, NoHandle, FALSE)
          /\ lastErr' = [lastErr EXCEPT
               ![p] = [kind |-> "ErrConnectionFailed",
                       attempt |-> attempt[p] + 1]]
          /\ attempt' = [attempt EXCEPT ![p] = attempt[p] + 1]
          /\ failedConn' = [failedConn EXCEPT ![p] = NoHandle]
          /\ conn' = [conn EXCEPT ![p] = NoHandle]
          /\ pc' = [pc EXCEPT ![p] = "wc_connect"]
          /\ UNCHANGED <<connections, devices>>
  /\ mu' = NoProc
  /\ reply' = NoReply
  /\ UNCHANGED <<selectedDevice, call, ret, twVars, cdVars, exVars, chain,
                 hubVars, config, packet, process>>

\* Scan in two steps: the caller is in bleAdapter.Scan, no lock taken yet
ScanCall ==
  /\ pc[UsrProc] = "idle"
  /\ pc' = [pc EXCEPT ![UsrProc] = "sc_adapter"]
  /\ chain' = Ended(chain)
  /\ reply' = NoReply
  /\ link' = NoLink
  /\ UNCHANGED <<devVars, twVars, cdVars, wcVars, exVars, hubVars, config,
                 packet, mu, process>>

\* Scan, second step: the adapter has returned its results; s.mu.Lock(),
\* the merge, Unlock
ScanMerge ==
  /\ pc[UsrProc] = "sc_adapter"
  /\ mu = NoProc
  /\ \E results \in SUBSET TwoAddrs : devices' = Merged(devices, results)
  /\ pc' = [pc EXCEPT ![UsrProc] = "idle"]
  /\ reply' = NoReply
  /\ link' = AdapterCall("Scan", NoAddr, NoHandle, TRUE)
  /\ UNCHANGED <<connections, selectedDevice, twVars, cdVars, wcVars, exVars,
                 chain, hubVars, config, packet, mu, process>>

\* DeviceService.GetDevice (ListDevices alike) called by another
\* goroutine: it is about to take s.mu.RLock()
GetDevice ==
  /\ pc[HubProc] = "idle"
  /\ pc' = [pc EXCEPT ![HubProc] = "gd_rlock"]
  /\ reply' = NoReply
  /\ link' = NoLink
  /\ UNCHANGED <<devVars, twVars, cdVars, wcVars, exVars, chain, hubVars,
                 config, packet, mu, process>>

\* GetDevice: RLock is granted once no writer holds s.mu; the look-up,
\* RUnlock, return
GdRead ==
  /\ pc[HubProc] = "gd_rlock"
  /\ mu = NoProc
  /\ pc' = [pc EXCEPT ![HubProc] = "idle"]
  /\ reply' = NoReply
  /\ link' = NoLink
  /\ UNCHANGED <<devVars, twVars, cdVars, wcVars, exVars, chain, hubVars,
                 config, packet, mu, process>>

\* DeviceService.Scan: the adapter reports some addresses; new ones get a
\* Device with the default state, known ones keep theirs
ScanFinds(results) ==
  /\ results # {}
  /\ devices' = Merged(devices, results)
  /\ devices' # devices
  /\ UNCHANGED <<connections, selectedDevice, twVars, cdVars, wcVars, exVars,
                 pc, chain>>
  /\ reply' = NoReply
  /\ link' = AdapterCall("Scan", NoAddr, NoHandle, TRUE)
  /\ UNCHANGED <<hubVars, config, packet, mu, process>>

Scan == \E results \in SUBSET Addrs : ScanFinds(results)

\* ServerState.SelectDevice
SelectAmong(addrs) ==
  /\ \E a \in addrs :
       /\ Has(devices, a)
       /\ selectedDevice # a
       /\ selectedDevice' = a
  /\ chain' = Ended(chain)
  /\ UNCHANGED <<devices, connections, twVars, cdVars, wcVars, exVars, pc>>
  /\ reply' = NoReply
  /\ link' = NoLink
  /\ UNCHANGED <<hubVars, config, packet, mu, process>>

SelectDevice == SelectAmong(Addrs)


\* ------------------------------------------------------ CooldownState
BadgeInputs == {{}, {"moderator"}}

\* no global cooldown at all
NoGlobalCooldown(cooldown) == [ok |-> TRUE, remaining |-> 0]

\* CooldownState.CheckGlobalCooldown (time.Since of the zero time is longer
\* than any cooldown)
CheckGlobalCooldown(cooldown) ==
  IF cooldown = 0 THEN [ok |-> TRUE, remaining |-> 0]
  ELSE IF LastGlobalCommand # Nil /\ now - LastGlobalCommand[1] < cooldown
    THEN [ok |-> FALSE,
          remaining |-> cooldown - (now - LastGlobalCommand[1])]
    ELSE [ok |-> TRUE, remaining |-> 0]

\* the whole cooldown reported as the remaining wait
FullUserCooldown(username, cooldown) ==
  IF cooldown = 0 THEN [ok |-> TRUE, remaining |-> 0]
  ELSE IF ~Has(UserLastCommand, username) THEN [ok |-> TRUE, remaining |-> 0]
  ELSE IF now - UserLastCommand[username] < cooldown
    THEN [ok |-> FALSE, remaining |-> cooldown]
    ELSE [ok |-> TRUE, remaining |-> 0]

\* CooldownState.CheckUserCooldown
CheckUserCooldown(username, cooldown) ==
  IF cooldown = 0 THEN [ok |-> TRUE, remaining |-> 0]
  ELSE IF ~Has(UserLastCommand, username) THEN [ok |-> TRUE, remaining |-> 0]
  ELSE IF now - UserLastCommand[username] < cooldown
    THEN [ok |-> FALSE,
          remaining |-> cooldown - (now - UserLastCommand[username])]
    ELSE [ok |-> TRUE, remaining |-> 0]

\* only the global timestamp is recorded
RecordGlobalOnly(username) ==
  /\ LastGlobalCommand' = <<now>>
  /\ UNCHANGED UserLastCommand

\* CooldownState.RecordCommand, under CooldownManager.mu
RecordCommand(username) ==
  /\ LastGlobalCommand' = <<now>>
  /\ UserLastCommand' = Put(UserLastCommand, username, now)

\* the clock advances
Tick ==
  /\ now < MaxTime * Second
  /\ now' = now + 1
  /\ UNCHANGED <<devVars, twVars, LastGlobalCommand, UserLastCommand, wcVars,
                 exVars, pc, chain>>
  /\ reply' = NoReply
  /\ link' = NoLink
  /\ UNCHANGED <<hubVars, config, packet, mu, process>>

\* ------------------------------------------------------ TwitchService
\* dto.NewTwitchCommandMessage
TwitchCommandMessage(username, command) ==
  [type |-> "twitch_command", username |-> username, command |-> command]

\* a timer nothing refers to any more can be handed out again
FreeTimers ==
  {t \in Timers :
     /\ timers[t] # "pending"
     /\ pc[t] = "idle"
     /\ (activeEffect = Nil \/ activeEffect[1].Timer # t)
     /\ \A p \in IrcProcs : timer[p] # t}

\* the timers as they are once those nothing refers to are forgotten
Recycled(tm, pcs, ae, tmr) ==
  [t \in Timers |->
     IF /\ tm[t] # "pending"
        /\ pcs[t] = "idle"
        /\ (ae = Nil \/ ae[1].Timer # t)
        /\ \A p \in IrcProcs : tmr[p] # t
       THEN "unused" ELSE tm[t]]

\* a forgotten timer has no closure any more
RecycledAddr(tm) ==
  [t \in Timers |-> IF tm[t] = "unused" THEN NoAddr ELSE timerAddr[t]]

NewTimer == CHOOSE t \in FreeTimers : \A u \in FreeTimers : t <= u

\* no override is in force and nothing else is going on
Quiescent ==
  /\ activeEffect = Nil
  /\ \A t \in Timers : timers[t] # "pending" /\ pc[t] = "idle"
  /\ pc[UsrProc] = "idle"
  /\ \A p \in IrcProcs : pc[p] = "idle"

\* a goroutine that is not in a handler: the reader of a new IRC client
NewReader == IF pc[IrcProc] = "idle" THEN IrcProc ELSE IrcProc2

\* TwitchService.Start: the IRC client is created and connected; its
\* reader goroutine delivers the chat messages to handleCommand
Start ==
  /\ ~ircOn
  /\ pc[NewReader] = "idle"
  /\ ircOn' = TRUE
  /\ ircClient' = NewReader
  /\ UNCHANGED <<devVars, snapshots, activeEffect, timers, timerAddr, cdVars,
                 wcVars, exVars, pc, chain>>
  /\ reply' = NoReply
  /\ link' = NoLink
  /\ UNCHANGED <<hubVars, config, packet, mu, process>>

\* a Stop that only disconnects the client
StopKeepsEffect ==
  /\ ircOn' = FALSE
  /\ chain' = Ended(chain)
  /\ UNCHANGED <<timers, timerAddr, activeEffect, ircClient>>

\* TwitchService.Stop, all of it under s.mu. The client is disconnected;
\* a handler its reader is in runs on
StopLocked ==
  /\ IF activeEffect # Nil /\ activeEffect[1].Timer # NoTimer
       THEN /\ timers' = Recycled([timers EXCEPT ![activeEffect[1].Timer] =
                                      IF @ = "pending" THEN "stopped" ELSE @],
                                   pc, Nil, timer)
            /\ timerAddr' = RecycledAddr(timers')
            /\ activeEffect' = Nil
       ELSE UNCHANGED <<timers, timerAddr, activeEffect>>
  /\ ircOn' = FALSE
  /\ UNCHANGED ircClient
  /\ chain' = Ended(chain)

Stop ==
  /\ ircOn
  /\ StopLocked
  /\ UNCHANGED <<devVars, snapshots, cdVars, wcVars, exVars, pc>>
  /\ reply' = NoReply
  /\ link' = NoLink
  /\ UNCHANGED <<hubVars, config, packet, mu, process>>

\* a reply that names neither the wait nor the kind
BareMessage(username, remaining, cooldownType) == FailedReply(username)

\* sendCooldownMessage(username, remaining, cooldownType): the chat line
\* names the user, the whole seconds of the remaining wait
\* (int(remaining.Seconds()) rounds down) and the kind of cooldown
CooldownMessage(username, remaining, cooldownType) ==
  [kind |-> cooldownType, user |-> username, remaining |-> remaining,
   seconds |-> remaining \div Second]

\* TwitchHandler.UpdateConfig: the update is applied to the stored
\* configuration and saved (a request names the fields it changes: here
\* one), then the integration is restarted: Stop, then Start
ConfigUpdates ==
  {[field |-> "GlobalCooldown", value |-> 0],
   [field |-> "GlobalCooldown", value |-> GlobalCooldown * Second],
   [field |-> "ModBypassCooldown", value |-> FALSE],
   [field |-> "ModBypassCooldown", value |-> TRUE]}

ApplyUpdate(cfg, upd) ==
  IF upd.field = "GlobalCooldown"
    THEN [cfg EXCEPT !.GlobalCooldown = upd.value]
    ELSE [cfg EXCEPT !.ModBypassCooldown = upd.value]

UpdateConfig(upd) ==
  /\ pc[UsrProc] = "idle"
  /\ ApplyUpdate(config, upd) # config
  /\ config' = ApplyUpdate(config, upd)
  /\ pc' = [pc EXCEPT ![UsrProc] = "uc_stop"]
  /\ reply' = NoReply
  /\ link' = NoLink
  /\ UNCHANGED <<devVars, twVars, cdVars, wcVars, exVars, chain, hubVars>>
  /\ UNCHANGED <<packet, mu, process>>

\* UpdateConfig: h.twitchService.Stop()
UcStop ==
  /\ pc[UsrProc] = "uc_stop"
  /\ StopLocked
  /\ pc' = [pc EXCEPT ![UsrProc] = "uc_start"]
  /\ reply' = NoReply
  /\ link' = NoLink
  /\ UNCHANGED <<devVars, snapshots, cdVars, wcVars, exVars, hubVars, config, packet, mu, process>>

\* UpdateConfig: h.twitchService.Start(r.Context())
UcStart ==
  /\ pc[UsrProc] = "uc_start"
  /\ pc[NewReader] = "idle"
  /\ ircOn' = TRUE
  /\ ircClient' = NewReader
  /\ pc' = [pc EXCEPT ![UsrProc] = "idle"]
  /\ reply' = NoReply
  /\ link' = NoLink
  /\ UNCHANGED <<devVars, snapshots, activeEffect, timers, timerAddr, cdVars,
                 wcVars, exVars, chain, hubVars, config, packet, mu, process>>

\* every role bypasses, whatever the flags are
AnyRoleBypasses(badges) == badges # {}

\* handleCommand: bypassCooldown, from the badges and the bypass flags
BypassCooldown(badges) ==
  \/ "vip" \in badges /\ config.VIPBypassCooldown
  \/ "subscriber" \in badges /\ config.SubBypassCooldown
  \/ "moderator" \in badges /\ config.ModBypassCooldown

\* TwitchService.handleCommand up to the call of executeCommand, and
\* executeCommand up to the device selection. (A message is taken up only
\* when a timer is at hand for it to schedule.)
HandleCommand(p, u, c, badges) ==
  /\ ircOn
  /\ link' = NoLink
  /\ ircClient = p
  /\ pc[p] = "idle"
  /\ FreeTimers # {}
  /\ LET bypassCooldown == BypassCooldown(badges)
           g == CheckGlobalCooldown(config.GlobalCooldown)
           k == CheckUserCooldown(u, config.UserCooldown)
       IN
         IF ~bypassCooldown /\ ~g.ok
           THEN /\ reply' = CooldownMessage(u, g.remaining, "global")
                /\ UNCHANGED <<pc, exVars, chain>>
         ELSE IF ~bypassCooldown /\ ~k.ok
           THEN /\ reply' = CooldownMessage(u, k.remaining, "personal")
                /\ UNCHANGED <<pc, exVars, chain>>
         ELSE IF selectedDevice = NoAddr
           THEN /\ reply' = FailedReply(u)
                /\ UNCHANGED <<pc, exVars, chain>>
         ELSE /\ cmd' = [cmd EXCEPT ![p] = [Username |-> u, Command |-> c]]
              /\ deviceAddr' = [deviceAddr EXCEPT ![p] = selectedDevice]
              /\ pc' = [pc EXCEPT ![p] = "ex_cancel"]
              /\ chain' =
                   IF chain.phase = "active"
                     THEN Undisturbed(
                            [chain EXCEPT
                               !.clean =
                                  /\ @
                                  /\ \A t \in Timers : pc[t] = "idle"
                                  /\ \A q \in IrcProcs : pc[q] = "idle"])
                     ELSE Undisturbed(
                            [chain EXCEPT
                               !.base = <<devices[selectedDevice].State>>,
                               !.accepted = 0,
                               !.clean = Quiescent, !.phase = "active"])
              /\ reply' = NoReply
              /\ UNCHANGED <<shouldSnapshot, timer>>
  /\ UNCHANGED <<devVars, twVars, cdVars, wcVars>>
  /\ UNCHANGED <<hubVars, config, packet, mu, process>>

\* executeCommand: cancel the existing effect timer, under s.mu
ExCancel(p) ==
  /\ pc[p] = "ex_cancel"
  /\ timers' =
       IF activeEffect # Nil /\ activeEffect[1].Timer # NoTimer
         THEN [timers EXCEPT ![activeEffect[1].Timer] =
                 IF @ = "pending" THEN "stopped" ELSE @]
         ELSE timers
  /\ pc' = [pc EXCEPT ![p] = "ex_check"]
  /\ UNCHANGED <<devVars, snapshots, activeEffect, timerAddr, ircVars, cdVars,
                 wcVars, exVars, chain>>
  /\ reply' = NoReply
  /\ link' = NoLink
  /\ UNCHANGED <<hubVars, config, packet, mu, process>>

\* a snapshot taken by every command
AlwaysSnapshot == TRUE

\* shouldSnapshot := s.activeEffect == nil
ShouldSnapshot == activeEffect = Nil

\* executeCommand: read shouldSnapshot, under s.mu.RLock
ExCheck(p) ==
  /\ pc[p] = "ex_check"
  /\ shouldSnapshot' = [shouldSnapshot EXCEPT ![p] = ShouldSnapshot]
  /\ pc' = [pc EXCEPT ![p] =
              IF ShouldSnapshot THEN "ex_snapshot" ELSE "ex_apply"]
  /\ UNCHANGED <<devVars, twVars, cdVars, wcVars, cmd, deviceAddr, timer,
                 chain>>
  /\ reply' = NoReply
  /\ link' = NoLink
  /\ UNCHANGED <<hubVars, config, packet, mu, process>>

\* device.State is copied after GetDevice has released the lock: a setter
\* storing a new state at that moment is a data race, and the copy can
\* take each field from the old or from the new state
RacingStates(a) ==
  {ApplySetter(devices[a].State, call[q]) :
     q \in {r \in Procs : pc[r] = "wc_done" /\ ret[r].ok /\ call[r].addr = a}}

Mix(s1, s2) ==
  [PowerOn : {s1.PowerOn, s2.PowerOn},
   Brightness : {s1.Brightness, s2.Brightness},
   RGB : {s1.RGB, s2.RGB},
   WhiteBalance : {s1.WhiteBalance, s2.WhiteBalance},
   Effect : {s1.Effect, s2.Effect},
   EffectSpeed : {s1.EffectSpeed, s2.EffectSpeed}]

ReadState(a) ==
  {devices[a].State}
    \cup UNION {Mix(devices[a].State, s2) : s2 \in RacingStates(a)}

\* executeCommand: GetDevice and SaveSnapshot (only if no active effect)
ExSnapshot(p) ==
  /\ pc[p] = "ex_snapshot"
  /\ link' = NoLink
  /\ IF ~Has(devices, deviceAddr[p])
       THEN /\ reply' = FailedReply(cmd[p].Username)
            /\ pc' = [pc EXCEPT ![p] = "idle"]
            /\ cmd' = [cmd EXCEPT ![p] = NoCmd]
            /\ deviceAddr' = [deviceAddr EXCEPT ![p] = NoAddr]
            /\ shouldSnapshot' = [shouldSnapshot EXCEPT ![p] = FALSE]
            /\ chain' = Ended(chain)
            /\ UNCHANGED snapshots
       ELSE /\ \E st \in ReadState(deviceAddr[p]) :
                 snapshots' = Put(snapshots, deviceAddr[p], st)
            /\ pc' = [pc EXCEPT ![p] = "ex_apply"]
            /\ reply' = NoReply
            /\ UNCHANGED <<cmd, deviceAddr, shouldSnapshot, chain>>
  /\ UNCHANGED <<devVars, activeEffect, timers, timerAddr, ircVars, cdVars,
                 wcVars, timer>>
  /\ UNCHANGED <<hubVars, config, packet, mu, process>>

\* executeCommand: the command is a colour, an effect or unknown
ExApply(p) ==
  /\ pc[p] = "ex_apply"
  /\ link' = NoLink
  /\ IF IsColor(cmd[p].Command)
       THEN /\ EnterSetter(p, [op |-> "SetColor", addr |-> deviceAddr[p],
                                     arg |-> GetRGB(cmd[p].Command)])
            /\ pc' = [pc EXCEPT ![p] = "wc_connect"]
            /\ reply' = NoReply
            /\ UNCHANGED <<exVars, chain>>
     ELSE IF IsEffect(cmd[p].Command)
       THEN /\ EnterSetter(p, [op |-> "SetEffect", addr |-> deviceAddr[p],
                 arg |-> <<GetEffect(cmd[p].Command), DefaultEffectSpeed>>])
            /\ pc' = [pc EXCEPT ![p] = "wc_connect"]
            /\ reply' = NoReply
            /\ UNCHANGED <<exVars, chain>>
     ELSE /\ reply' = FailedReply(cmd[p].Username)
          /\ pc' = [pc EXCEPT ![p] = "idle"]
          /\ cmd' = [cmd EXCEPT ![p] = NoCmd]
          /\ deviceAddr' = [deviceAddr EXCEPT ![p] = NoAddr]
          /\ shouldSnapshot' = [shouldSnapshot EXCEPT ![p] = FALSE]
          /\ chain' = Ended(chain)
          /\ UNCHANGED <<wcVars, timer>>
  /\ UNCHANGED <<devVars, twVars, cdVars>>
  /\ UNCHANGED <<hubVars, config, packet, mu, process>>

\* executeCommand: time.AfterFunc(config.EffectDuration, restore)
ExTimer(p) ==
  /\ pc[p] = "ex_timer"
  /\ FreeTimers # {}
  /\ timer' = [timer EXCEPT ![p] = NewTimer]
  /\ timers' = [timers EXCEPT ![NewTimer] = "pending"]
  /\ timerAddr' = [timerAddr EXCEPT ![NewTimer] = deviceAddr[p]]
  /\ pc' = [pc EXCEPT ![p] = "ex_marker"]
  /\ UNCHANGED <<devVars, snapshots, activeEffect, ircVars, cdVars, wcVars, cmd,
                 deviceAddr, shouldSnapshot, chain>>
  /\ reply' = NoReply
  /\ link' = NoLink
  /\ UNCHANGED <<hubVars, config, packet, mu, process>>

\* executeCommand: s.activeEffect = &ActiveEffect{...}, under s.mu
ExMarker(p) ==
  /\ pc[p] = "ex_marker"
  /\ activeEffect' = <<[Username |-> cmd[p].Username,
                        Command |-> cmd[p].Command, Timer |-> timer[p]]>>
  /\ pc' = [pc EXCEPT ![p] = "hc_record"]
  /\ chain' = Undisturbed([chain EXCEPT
                             !.accepted = IF @ < 2 THEN @ + 1 ELSE @])
  /\ timers' = Recycled(timers, pc, activeEffect', timer)
  /\ timerAddr' = RecycledAddr(timers')
  /\ UNCHANGED <<devVars, snapshots, ircVars, cdVars, wcVars, exVars>>
  /\ reply' = NoReply
  /\ link' = NoLink
  /\ UNCHANGED <<hubVars, config, packet, mu, process>>

\* handleCommand after executeCommand returned nil: RecordCommand, the
\* success message and onCommandSuccess, which is
\* ServerState.BroadcastTwitchCommand (h.broadcast <- data waits for room
\* in the buffer)
HcRecord(p) ==
  /\ pc[p] = "hc_record"
  /\ link' = NoLink
  /\ Len(broadcast) < BroadcastCap
  /\ RecordCommand(cmd[p].Username)
  /\ broadcast' = Append(broadcast,
                         TwitchCommandMessage(cmd[p].Username,
                                              cmd[p].Command))
  /\ reply' = [kind |-> "success", user |-> cmd[p].Username,
                remaining |-> 0, seconds |-> 0]
  /\ pc' = [pc EXCEPT ![p] = "idle"]
  /\ cmd' = [cmd EXCEPT ![p] = NoCmd]
  /\ deviceAddr' = [deviceAddr EXCEPT ![p] = NoAddr]
  /\ shouldSnapshot' = [shouldSnapshot EXCEPT ![p] = FALSE]
  /\ timer' = [timer EXCEPT ![p] = NoTimer]
  /\ UNCHANGED <<devVars, twVars, now, wcVars, chain>>
  /\ UNCHANGED <<clients, send, hubClient, config, packet, mu, process>>

\* the revert timer fires: restoreStreamerState runs in its own goroutine
TimerFire(t) ==
  /\ timers[t] = "pending"
  /\ timers' = [timers EXCEPT ![t] = "fired"]
  /\ pc' = [pc EXCEPT ![t] = "rs_read"]
  /\ chain' = Undisturbed(
                 [chain EXCEPT
                    !.clean = @ /\ \A p \in IrcProcs : pc[p] = "idle"])
  /\ UNCHANGED <<devVars, snapshots, activeEffect, timerAddr, ircVars, cdVars,
                 wcVars, exVars>>
  /\ reply' = NoReply
  /\ link' = NoLink
  /\ UNCHANGED <<hubVars, config, packet, mu, process>>

\* the setter restoreStreamerState calls for a snapshot state
RestoreCall(a, state) ==
  IF state.RGB # Nil
    THEN [op |-> "SetColor", addr |-> a, arg |-> state.RGB]
  ELSE IF state.WhiteBalance # Nil
    THEN [op |-> "SetWhiteBalance", addr |-> a, arg |-> state.WhiteBalance]
  ELSE IF state.Effect # Nil
    THEN [op |-> "SetEffect", addr |-> a,
          arg |-> <<state.Effect[1],
                    IF state.EffectSpeed # Nil THEN state.EffectSpeed[1]
                    ELSE DefaultEffectSpeed>>]
  ELSE NoCall

\* restoreStreamerState: GetLatestSnapshot and the choice of the setter
RsRead(t) ==
  /\ pc[t] = "rs_read"
  /\ LET a == timerAddr[t] IN
       IF ~Has(snapshots, a)
         THEN /\ pc' = [pc EXCEPT ![t] = "idle"]
              /\ UNCHANGED wcVars
       ELSE IF RestoreCall(a, snapshots[a]) = NoCall
         THEN /\ pc' = [pc EXCEPT ![t] = "rs_clear"]
              /\ UNCHANGED wcVars
       ELSE /\ EnterSetter(t, RestoreCall(a, snapshots[a]))
            /\ pc' = [pc EXCEPT ![t] = "wc_connect"]
  /\ timers' = Recycled(timers, pc', activeEffect, timer)
  /\ timerAddr' = RecycledAddr(timers')
  /\ UNCHANGED <<devVars, snapshots, activeEffect, ircVars, cdVars, exVars,
                 chain>>
  /\ reply' = NoReply
  /\ link' = NoLink
  /\ UNCHANGED <<hubVars, config, packet, mu, process>>

\* restoreStreamerState: s.activeEffect = nil, under s.mu
RsClear(t) ==
  /\ pc[t] = "rs_clear"
  /\ activeEffect' = Nil
  /\ pc' = [pc EXCEPT ![t] = "idle"]
  /\ chain' = Undisturbed([chain EXCEPT
                             !.phase = IF @ = "active" THEN "restored" ELSE @])
  /\ timers' = Recycled(timers, pc', Nil, timer)
  /\ timerAddr' = RecycledAddr(timers')
  /\ UNCHANGED <<devVars, snapshots, ircVars, cdVars, wcVars, exVars>>
  /\ reply' = NoReply
  /\ link' = NoLink
  /\ UNCHANGED <<hubVars, config, packet, mu, process>>

\* --------------------------------------------------------------- Hub
\* dto.NewErrorMessage and dto.NewStateUpdateMessage, as sent to observers
ErrorMessage(code) == [type |-> "error", code |-> code]
StateUpdateMessage(a, state) ==
  [type |-> "state_update", address |-> a, state |-> state]

\* the reply the hub hands to Client.SendJSON
HubError(c, code) ==
  [kind |-> code, user |-> c, remaining |-> 0, seconds |-> 0]

\* inbound frames: the envelope decodes or not; the payload is an object
\* with every field of the action, or null / an object without the
\* fields, or something json.Unmarshal refuses (wrong type, a number out
\* of uint8, no payload at all)
FullPayload(v) == [kind |-> "fields", val |-> v]
EmptyPayload == [kind |-> "empty", val |-> <<>>]
BadPayload == [kind |-> "invalid", val |-> <<>>]
Frame(action, payload) ==
  [format |-> "json", action |-> action, payload |-> payload]
Garbage == [format |-> "garbage", action |-> "", payload |-> BadPayload]

\* dto.CommandAction*: the actions of the switch and the setter of each
HubSetters ==
  [power |-> "SetPower", color |-> "SetColor", brightness |-> "SetBrightness",
   white_balance |-> "SetWhiteBalance", effect |-> "SetEffect"]

\* the Go zero value of each payload struct
ZeroPayload ==
  [power |-> <<FALSE>>, color |-> <<0, 0, 0>>, brightness |-> <<0>>,
   white_balance |-> <<0, 0>>, effect |-> <<0, 0>>]

\* json.Unmarshal(cmd.Payload, &payload): fields that are missing keep
\* their zero value, and null decodes without an error
UnmarshalPayload(action, payload) ==
  IF payload.kind = "invalid" THEN [err |-> TRUE, arg |-> <<>>]
  ELSE IF payload.kind = "empty"
    THEN [err |-> FALSE, arg |-> ZeroPayload[action]]
  ELSE [err |-> FALSE, arg |-> payload.val]

\* Client.SendJSON: the message goes into the observer's own queue while
\* it is open and has room
SendJSON(snd, c, m) ==
  IF ~snd[c].closed /\ Len(snd[c].buf) < SendCap
    THEN [snd EXCEPT ![c].buf = Append(@, m)]
    ELSE snd

\* Hub.Run, case client := <-h.register (a new Client has a new queue)
Register(c) ==
  /\ pc[HubProc] = "idle"
  /\ c \notin clients
  /\ clients' = clients \cup {c}
  /\ send' = [send EXCEPT ![c] = NewQueue]
  /\ reply' = NoReply
  /\ link' = NoLink
  /\ UNCHANGED <<devVars, twVars, cdVars, wcVars, exVars, pc, chain,
                 broadcast, hubClient, config, packet, mu, process>>

\* an unregister that does not look the observer up
AlwaysKnown(c) == TRUE

\* case client := <-h.unregister: if _, ok := h.clients[client]; ok
Known(c) == c \in clients

\* Hub.Run, case client := <-h.unregister (nothing is done for an
\* observer that is not in the set)
Unregister(c) ==
  /\ pc[HubProc] = "idle"
  /\ IF Known(c)
       THEN /\ clients' = clients \ {c}
            /\ send' = [send EXCEPT ![c].closed = TRUE]
       ELSE UNCHANGED <<clients, send>>
  /\ reply' = NoReply
  /\ link' = NoLink
  /\ UNCHANGED <<devVars, twVars, cdVars, wcVars, exVars, pc, chain,
                 broadcast, hubClient, config, packet, mu, process>>

\* a fan-out that stops at the first observer it has to shed
StopsAtSaturated(m) ==
  IF \E c \in clients : Len(send[c].buf) >= SendCap
    THEN LET shed == CHOOSE c \in clients : Len(send[c].buf) >= SendCap IN
           [clients |-> clients \ {shed},
            send |-> [send EXCEPT ![shed].closed = TRUE]]
    ELSE [clients |-> clients,
          send |-> [c \in Clients |->
                      IF c \in clients
                        THEN [send[c] EXCEPT !.buf = Append(@, m)]
                        ELSE send[c]]]

\* the loop over h.clients: select { case client.send <- message:
\* default: close(client.send); delete(h.clients, client) }
FanOut(m) ==
  LET full == {c \in clients : Len(send[c].buf) >= SendCap} IN
    [clients |-> clients \ full,
     send |-> [c \in Clients |->
                 IF c \in full THEN [send[c] EXCEPT !.closed = TRUE]
                 ELSE IF c \in clients
                   THEN [send[c] EXCEPT !.buf = Append(@, m)]
                 ELSE send[c]]]

\* Hub.Run, case message := <-h.broadcast
HubBroadcast ==
  /\ pc[HubProc] = "idle"
  /\ broadcast # <<>>
  /\ clients' = FanOut(Head(broadcast)).clients
  /\ send' = FanOut(Head(broadcast)).send
  /\ broadcast' = Tail(broadcast)
  /\ reply' = NoReply
  /\ link' = NoLink
  /\ UNCHANGED <<devVars, twVars, cdVars, wcVars, exVars, pc, chain,
                 hubClient, config, packet, mu, process>>

\* Client.WritePump: the next queued message goes out on the socket
WritePump(c) ==
  /\ send[c].buf # <<>>
  /\ send' = [send EXCEPT ![c].buf = Tail(@)]
  /\ reply' = NoReply
  /\ link' = NoLink
  /\ UNCHANGED <<devVars, twVars, cdVars, wcVars, exVars, pc, chain,
                 clients, broadcast, hubClient, config, packet, mu, process>>

\* Hub.handleCommand up to the call of the setter. The sender was
\* registered when it sent the frame.
Dispatch(c, m) ==
  /\ pc[HubProc] = "idle"
  /\ link' = NoLink
  /\ c \in clients \/ send[c].closed
  /\ LET code ==
           IF m.format # "json" THEN "INVALID_FORMAT"
           ELSE IF selectedDevice = NoAddr THEN "DEVICE_NOT_SELECTED"
           ELSE IF m.action \notin DOMAIN HubSetters THEN "UNKNOWN_ACTION"
           ELSE IF UnmarshalPayload(m.action, m.payload).err
             THEN "INVALID_PAYLOAD"
           ELSE ""
     IN
       IF code # ""
         THEN /\ reply' = HubError(c, code)
              /\ send' = SendJSON(send, c, ErrorMessage(code))
              /\ UNCHANGED <<pc, wcVars, hubClient>>
         ELSE /\ EnterSetter(HubProc,
                   [op |-> HubSetters[m.action], addr |-> selectedDevice,
                    arg |-> UnmarshalPayload(m.action, m.payload).arg])
              /\ pc' = [pc EXCEPT ![HubProc] = "wc_connect"]
              /\ hubClient' = c
              /\ reply' = NoReply
              /\ UNCHANGED send
  /\ UNCHANGED <<devVars, twVars, cdVars, exVars, chain, clients, broadcast,
                 config, packet, mu>>

\* Hub.Run, case clientMsg := <-h.process, with the channel left out: any
\* frame of any observer can be the next one
HubCommand(c, m) == Dispatch(c, m) /\ UNCHANGED process

\* a loop that takes the newest frame of the channel
NewestMessage(q) == q[Len(q)]

\* clientMsg := <-h.process: a channel yields what was sent first
NextMessage(q) == Head(q)

\* an observer's frame on its way to the hub
ClientMessage(c, m) == [client |-> c, message |-> m]

\* Client.ReadPump: h.process <- &ClientMessage{...} (the send waits for
\* room in the buffer)
Submit(c, m) ==
  /\ c \in clients
  /\ Len(process) < ProcessCap
  /\ process' = Append(process, ClientMessage(c, m))
  /\ reply' = NoReply
  /\ link' = NoLink
  /\ UNCHANGED <<devVars, twVars, cdVars, wcVars, exVars, pc, chain, hubVars,
                 config, packet, mu>>

\* Hub.Run, case clientMsg := <-h.process: h.handleCommand(clientMsg.client,
\* clientMsg.message), called in the loop itself
HubReceive ==
  /\ process # <<>>
  /\ Dispatch(NextMessage(process).client, NextMessage(process).message)
  /\ process' = Tail(process)

\* Hub.BroadcastDeviceState: the messages it can put on h.broadcast (none
\* when no device is selected or the device is not catalogued)
DeviceStateMessages ==
  IF selectedDevice = NoAddr \/ ~Has(devices, selectedDevice) THEN {}
  ELSE {StateUpdateMessage(selectedDevice, st) :
          st \in ReadState(selectedDevice)}

\* handleCommand broadcasting whatever the setter returned
NeverFailed == FALSE

\* handleCommand: if err != nil
CommandFailed == ~ret[HubProc].ok

\* Hub.handleCommand after the setter has returned: the error reply, or
\* BroadcastDeviceState (h.broadcast <- data waits for room in the buffer)
HubDone ==
  /\ pc[HubProc] = "hub_done"
  /\ link' = NoLink
  /\ IF CommandFailed
       THEN /\ reply' = HubError(hubClient, "COMMAND_FAILED")
            /\ send' = SendJSON(send, hubClient,
                                ErrorMessage("COMMAND_FAILED"))
            /\ UNCHANGED broadcast
       ELSE /\ \/ /\ DeviceStateMessages = {}
                  /\ UNCHANGED broadcast
               \/ /\ Len(broadcast) < BroadcastCap
                  /\ \E m \in DeviceStateMessages :
                       broadcast' = Append(broadcast, m)
            /\ reply' = NoReply
            /\ UNCHANGED send
  /\ pc' = [pc EXCEPT ![HubProc] = "idle"]
  /\ ret' = [ret EXCEPT ![HubProc] = OkRet]
  /\ hubClient' = NoClient
  /\ UNCHANGED <<devVars, twVars, cdVars, exVars, chain, clients, config,
                 call, attempt, conn, lastErr, failedConn, packet, mu, process>>

\* DeviceHandler.SelectDevice of the address already selected:
\* ServerState.BroadcastState, in the goroutine of the HTTP request
BroadcastState ==
  /\ Len(broadcast) < BroadcastCap
  /\ \E m \in DeviceStateMessages : broadcast' = Append(broadcast, m)
  /\ reply' = NoReply
  /\ link' = NoLink
  /\ UNCHANGED <<devVars, twVars, cdVars, wcVars, exVars, pc, chain,
                 clients, send, hubClient, config, packet, mu, process>>

\* the frames the observers send
HubFrames ==
  {Frame("color", FullPayload(v)) : v \in RGBInputs}
    \cup {Frame("effect", FullPayload(v)) : v \in EffectInputs}
    \cup {Frame("power", EmptyPayload), Frame("color", BadPayload),
          Frame("bogus", EmptyPayload), Garbage}

\* ------------------------------------------------------- specification
\* the whole server, every goroutine step by step; its parts are
\* explored on their own below
Next ==
  \/ Scan \/ SelectDevice
  \/ SetPower \/ SetColor \/ SetBrightness \/ SetWhiteBalance \/ SetEffect
  \/ \E p \in Procs : connect(p)
  \/ \E p \in Procs : Write(p)
  \/ \E p \in Procs : Disconnect(p)
  \/ \E p \in Procs : Exhausted(p)
  \/ \E p \in Procs : SetterReturn(p)
  \/ UsrReturn
  \/ Start \/ Stop \/ Tick
  \/ \E upd \in ConfigUpdates : UpdateConfig(upd)
  \/ UcStop \/ UcStart
  \/ \E p \in IrcProcs, u \in Users, c \in CmdInputs,
          badges \in BadgeInputs :
       HandleCommand(p, u, c, badges)
  \/ \E p \in IrcProcs :
       \/ ExCancel(p) \/ ExCheck(p) \/ ExSnapshot(p) \/ ExApply(p)
       \/ ExTimer(p) \/ ExMarker(p) \/ HcRecord(p)
  \/ \E t \in Timers : TimerFire(t)
  \/ \E t \in Timers : RsRead(t)
  \/ \E t \in Timers : RsClear(t)
  \/ \E c \in Clients : Register(c)
  \/ \E c \in Clients : Unregister(c)
  \/ \E c \in Clients, m \in HubFrames : HubCommand(c, m)
  \/ HubDone \/ HubBroadcast \/ BroadcastState
  \/ \E c \in Clients : WritePump(c)

Spec == Init /\ [][Next]_vars


\* the device service driven by one caller of the setters
DeviceProcs == {UsrProc}

NextDevice ==
  \/ Scan
  \/ SetPower \/ SetColor \/ SetBrightness \/ SetWhiteBalance \/ SetEffect
  \/ \E p \in DeviceProcs : connect(p)
  \/ \E p \in DeviceProcs : Write(p)
  \/ \E p \in DeviceProcs : Disconnect(p)
  \/ \E p \in DeviceProcs : Exhausted(p)
  \/ \E p \in DeviceProcs : SetterReturn(p)
  \/ UsrReturn

SpecDevice == Init /\ [][NextDevice]_vars

\* the running Twitch integration: viewer commands and revert timers.
\* writeCommand is one step here (its passes are explored above), the
\* integration is not stopped, and the clock stands still: once a command
\* is recorded, the commands that pass the cooldowns are a moderator's
RunProcs == {IrcProc} \cup Timers
RunUsers == {"u"}
RunCmds == {"red", "blue", "bogus"}

NextRun ==
  \/ Scan \/ SelectDevice \/ Start
  \/ \E u \in RunUsers, c \in RunCmds, badges \in BadgeInputs :
       HandleCommand(IrcProc, u, c, badges)
  \/ ExCancel(IrcProc) \/ ExCheck(IrcProc) \/ ExSnapshot(IrcProc)
  \/ ExApply(IrcProc) \/ ExTimer(IrcProc) \/ ExMarker(IrcProc)
  \/ HcRecord(IrcProc)
  \/ \E p \in RunProcs : writeCommand(p)
  \/ \E p \in RunProcs : SetterReturn(p)
  \/ \E t \in Timers : TimerFire(t)
  \/ \E t \in Timers : RsRead(t)
  \/ \E t \in Timers : RsClear(t)
  \/ HubBroadcast

SpecRun == Init /\ [][NextRun]_vars

\* the hub with its observers: frames from the observers, the REST
\* handler's broadcasts, the observers' write pumps. writeCommand is one
\* step here as well.
NextHub ==
  \/ Scan \/ SelectDevice
  \/ \E c \in Clients : Register(c)
  \/ \E c \in Clients : Unregister(c)
  \/ \E c \in Clients, m \in HubFrames : HubCommand(c, m)
  \/ writeCommand(HubProc)
  \/ SetterReturn(HubProc)
  \/ HubDone
  \/ HubBroadcast
  \/ BroadcastState
  \/ \E c \in Clients : WritePump(c)

SpecHub == Init /\ [][NextHub]_vars

\* the cooldowns: the clock runs while viewers of every rank send
\* commands, under each configuration. The effect lasts longer than the
\* clock runs here: no revert timer fires.
CooldownBadges == {{}, {"moderator"}, {"moderator", "vip"}}
CooldownCmds == {"red"}

NextCooldown ==
  \/ Scan \/ SelectDevice \/ Start \/ Tick
  \/ \E u \in Users, c \in CooldownCmds, badges \in CooldownBadges :
       HandleCommand(IrcProc, u, c, badges)
  \/ ExCancel(IrcProc) \/ ExCheck(IrcProc) \/ ExSnapshot(IrcProc)
  \/ ExApply(IrcProc) \/ ExTimer(IrcProc) \/ ExMarker(IrcProc)
  \/ HcRecord(IrcProc)
  \/ writeCommand(IrcProc) \/ SetterReturn(IrcProc)
  \/ HubBroadcast

SpecCooldown == InitLoaded /\ [][NextCooldown]_vars

\* the integration restarted while a handler is running: the reader of
\* the new IRC client delivers commands while the old one's handler runs
\* on. The clock stands still, every viewer is without rank and the
\* cooldowns stay as configured.
RestartUpdates == {upd \in ConfigUpdates : upd.field = "ModBypassCooldown"}

NextRestart ==
  \/ Scan \/ SelectDevice \/ Start
  \/ \E upd \in RestartUpdates : UpdateConfig(upd)
  \/ UcStop \/ UcStart
  \/ \E p \in IrcProcs, u \in Users, c \in CooldownCmds :
       HandleCommand(p, u, c, {})
  \/ \E p \in IrcProcs :
       \/ ExCancel(p) \/ ExCheck(p) \/ ExSnapshot(p) \/ ExApply(p)
       \/ ExTimer(p) \/ ExMarker(p) \/ HcRecord(p)
       \/ writeCommand(p) \/ SetterReturn(p)
  \/ HubBroadcast

SpecRestart == Init /\ [][NextRestart]_vars

\* the same under the scheduler's guarantees: a goroutine that can take a
\* step takes it, a scheduled timer fires, every writeCommand returns.
\* Chat messages are the environment's: none is ever bound to arrive.
IrcStep ==
  \/ ExCancel(IrcProc) \/ ExCheck(IrcProc) \/ ExSnapshot(IrcProc)
  \/ ExApply(IrcProc) \/ ExTimer(IrcProc) \/ ExMarker(IrcProc)
  \/ HcRecord(IrcProc)
  \/ writeCommand(IrcProc) \/ SetterReturn(IrcProc)

TimerStep(t) ==
  \/ TimerFire(t) \/ RsRead(t) \/ RsClear(t)
  \/ writeCommand(t) \/ SetterReturn(t)

FairRun ==
  /\ SpecRun
  /\ WF_vars(IrcStep)
  /\ \A t \in Timers : WF_vars(TimerStep(t))
  /\ WF_vars(HubBroadcast)

\* the streamer chooses a look before the integration is started; then a
\* viewer overrides it and the revert timer restores. writeCommand is one
\* step, the clock stands still.
LookCmds == {"red"}

NextLook ==
  \/ Scan \/ SelectDevice \/ Start
  \/ ~ircOn /\ (SetColor \/ SetWhiteBalance \/ SetEffect)
  \/ writeCommand(UsrProc) \/ SetterReturn(UsrProc) \/ UsrReturn
  \/ \E u \in RunUsers, c \in LookCmds : HandleCommand(IrcProc, u, c, {})
  \/ IrcStep
  \/ \E t \in Timers : TimerStep(t)
  \/ HubBroadcast

SpecLook == Init /\ [][NextLook]_vars

\* two lamps in reach, found by one scan: the streamer selects the first
\* and, while an override is in force and no handler is running, the
\* other. The viewer is a moderator, whose commands pass the cooldowns;
\* writeCommand is one step, the clock stands still.
NextSwitch ==
  \/ ScanFinds(TwoAddrs) \/ Start
  \/ selectedDevice = NoAddr /\ SelectAmong(Addrs)
  \/ /\ \A p \in Procs : pc[p] = "idle"
     /\ activeEffect # Nil
     /\ SelectAmong(TwoAddrs \ Addrs)
  \/ \E u \in RunUsers, c \in LookCmds :
       HandleCommand(IrcProc, u, c, {"moderator"})
  \/ IrcStep
  \/ \E t \in Timers : TimerStep(t)
  \/ HubBroadcast

SpecSwitch == Init /\ [][NextSwitch]_vars

\* the running integration, stopped and started again by the streamer
NextStop ==
  \/ Scan \/ SelectDevice \/ Start \/ Stop
  \/ \E u \in RunUsers, c \in LookCmds, badges \in BadgeInputs :
       HandleCommand(IrcProc, u, c, badges)
  \/ IrcStep
  \/ \E t \in Timers : TimerStep(t)
  \/ HubBroadcast

SpecStop == Init /\ [][NextStop]_vars

\* the device service under two concurrent callers of the setters, step
\* by step: a direct caller and the hub's goroutine serving one observer
\* (which does not read what it is sent)
LinkProcs == {UsrProc, HubProc}
LinkClients == {"c1"}
LinkFrames == {Frame("color", FullPayload(v)) : v \in RGBInputs}

NextLink ==
  \/ Scan \/ SelectDevice
  \/ SetColor
  \/ \E c \in LinkClients : Register(c)
  \/ \E c \in LinkClients, m \in LinkFrames : HubCommand(c, m)
  \/ \E p \in LinkProcs : connect(p)
  \/ \E p \in LinkProcs : Write(p)
  \/ \E p \in LinkProcs : Disconnect(p)
  \/ \E p \in LinkProcs : Exhausted(p)
  \/ \E p \in LinkProcs : SetterReturn(p)
  \/ UsrReturn \/ HubDone \/ HubBroadcast

SpecLink == Init /\ [][NextLink]_vars

\* the encoders of package protocol on their own: a caller builds a
\* Command from uint8 (or bool) arguments and takes its bytes; nothing
\* of the server is touched
serverVars == <<devVars, twVars, cdVars, wcVars, exVars, hubVars, reply,
                link, pc, chain, config, mu, process>>

EncodePower ==
  \E on \in BOOLEAN :
    /\ packet' = Bytes(NewPowerCommand(on))
    /\ UNCHANGED serverVars

EncodeRGB ==
  \E r \in ByteInputs, g \in ByteInputs, b \in ByteInputs :
    /\ packet' = Bytes(NewRGBCommand(r, g, b))
    /\ UNCHANGED serverVars

EncodeBrightness ==
  \E level \in ByteInputs :
    /\ packet' = Bytes(NewBrightnessCommand(level))
    /\ UNCHANGED serverVars

EncodeWhiteBalance ==
  \E warm \in ByteInputs, cold \in ByteInputs :
    /\ packet' = Bytes(NewWhiteBalanceCommand(warm, cold))
    /\ UNCHANGED serverVars

EncodeSingleColor ==
  \E index \in ByteInputs :
    /\ packet' = Bytes(NewSingleColorCommand(index))
    /\ UNCHANGED serverVars

EncodeEffect ==
  \E effect \in ByteInputs, speed \in ByteInputs :
    /\ packet' = Bytes(NewEffectCommand(effect, speed))
    /\ UNCHANGED serverVars

NextEncode ==
  \/ EncodePower \/ EncodeRGB \/ EncodeBrightness \/ EncodeWhiteBalance
  \/ EncodeSingleColor \/ EncodeEffect

SpecEncode == Init /\ [][NextEncode]_vars

\* the catalogue with two lamps in reach: scans that report any of them,
\* one caller of the setters on either address and of DisconnectAll
CatalogSetters ==
  {[op |-> "SetPower", addr |-> a, arg |-> <<TRUE>>] : a \in TwoAddrs}
    \cup {[op |-> "SetColor", addr |-> a, arg |-> rgb] :
            a \in TwoAddrs, rgb \in RGBInputs}

NextCatalog ==
  \/ \E results \in SUBSET TwoAddrs : ScanFinds(results)
  \/ \E c \in CatalogSetters : UsrEnter(c)
  \/ connect(UsrProc) \/ Write(UsrProc) \/ Disconnect(UsrProc)
  \/ Exhausted(UsrProc) \/ SetterReturn(UsrProc) \/ UsrReturn
  \/ DisconnectAll \/ DaDisconnect \/ DaReturn

SpecCatalog == Init /\ [][NextCatalog]_vars

\* the device service with its lock: one goroutine calling Scan and the
\* setters, each critical section entered only while s.mu is free, and
\* another goroutine reading the catalogue
NextLock ==
  \/ ScanCall \/ ScanMerge
  \/ \E c \in CatalogSetters : UsrEnter(c)
  \/ ConnectLock(UsrProc) \/ ConnectAdapter(UsrProc)
  \/ Write(UsrProc)
  \/ mu = NoProc /\ Disconnect(UsrProc)
  \/ Exhausted(UsrProc)
  \/ mu = NoProc /\ SetterReturn(UsrProc)
  \/ UsrReturn
  \/ GetDevice \/ GdRead

SpecLock == Init /\ [][NextLock]_vars

\* the hub with its process channel: observers send frames, the loop
\* takes them one by one between its other cases
QueueFrames == {Frame("color", FullPayload(v)) : v \in RGBInputs}
                 \cup {Frame("power", EmptyPayload), Garbage}

NextQueue ==
  \/ Scan \/ SelectDevice
  \/ \E c \in Clients : Register(c)
  \/ \E c \in Clients : Unregister(c)
  \/ \E c \in Clients, m \in QueueFrames : Submit(c, m)
  \/ HubReceive
  \/ writeCommand(HubProc)
  \/ SetterReturn(HubProc)
  \/ HubDone
  \/ HubBroadcast

SpecQueue == Init /\ [][NextQueue]_vars

\* the hub loop among the other senders on h.broadcast: one observer's
\* colour frames, REST handlers broadcasting the state. The hub goroutine
\* is scheduled whenever it can take a step; observers' frames and REST
\* requests are the environment's
HubStep ==
  \/ writeCommand(HubProc) \/ SetterReturn(HubProc) \/ HubDone
  \/ HubBroadcast

NextLoop ==
  \/ Scan \/ SelectDevice
  \/ \E c \in LinkClients : Register(c)
  \/ \E c \in LinkClients, m \in LinkFrames : HubCommand(c, m)
  \/ BroadcastState
  \/ \E c \in LinkClients : WritePump(c)
  \/ HubStep

FairLoop == Init /\ [][NextLoop]_vars /\ WF_vars(HubStep)

\* the stored DeviceState of every catalogued device
States(devs) == [a \in DOMAIN devs |-> devs[a].State]

\* --------------------------------------------- claims: device service
\* C5: writeCommand makes at most 3 attempts (a pass of the loop: connect,
\* then one adapter Write). The first attempt whose Write succeeds ends it
\* with success, at once and with no further attempt; a success is only
\* ever the result of a Write. So with attempts 1 and 2 failed and attempt
\* 3 succeeding it returns success after exactly 3 attempts.
C5_AtMostThreeAttempts ==
  [][\A p \in Procs :
       /\ attempt'[p] <= 3
       /\ (pc'[p] \in {"wc_write", "wc_disconnect"} => attempt'[p] + 1 <= 3)
       /\ (pc[p] = "wc_write" /\ pc'[p] = "wc_done"
             => ret'[p].ok /\ attempt'[p] = attempt[p])
       /\ (pc[p] # "wc_done" /\ pc'[p] = "wc_done" /\ ret'[p].ok
             => /\ pc[p] = "wc_write"
                /\ attempt[p] + 1 <= 3
                /\ lastErr[p].attempt = attempt[p])
       /\ (pc[p] = "wc_done"
             => pc'[p] \notin {"wc_connect", "wc_write", "wc_disconnect"})
    ]_vars

\* attempts 1 and 2 have failed and the Write of attempt 3 has succeeded
C5_ThirdAttemptSucceeds ==
  /\ pc[UsrProc] = "wc_done"
  /\ ret[UsrProc].ok
  /\ attempt[UsrProc] = 2
  /\ lastErr[UsrProc].attempt = 2

\* C6: when all 3 attempts of writeCommand have failed, by a connect
\* failure or a write failure in any mix, it returns an error that wraps
\* the failure of the third attempt, never success.
C6_WrapsLastFailure ==
  \A p \in Procs :
    pc[p] = "wc_done" /\ attempt[p] = 3
      => /\ ~ret[p].ok
         /\ ret[p].wraps.attempt = 3
         /\ ret[p].wraps.kind \in {"ErrConnectionFailed", "ErrWriteFailed"}
         /\ ret[p].wraps = lastErr[p]

\* three attempts have failed, the last one by its write
C6_AllThreeFailed ==
  /\ pc[UsrProc] = "wc_done"
  /\ attempt[UsrProc] = 3
  /\ ret[UsrProc].wraps.kind = "ErrWriteFailed"

\* C7: after an attempt of writeCommand whose write failed, the next
\* attempt never issues its write on the handle that write failed on,
\* whatever the adapter's Disconnect returned.
C7_NeverSameHandle ==
  \A p \in Procs :
    pc[p] = "wc_write" => conn[p] # failedConn[p]

\* C8: a setter changes the stored DeviceState only once writeCommand has
\* returned success; when writeCommand has failed, the setter returns that
\* error as it is and the stored state of every device stays what it was.
C8_StateOnlyAfterSuccess ==
  [][/\ \A a \in DOMAIN devices :
          devices'[a].State # devices[a].State
            => \E p \in Procs :
                 /\ pc[p] = "wc_done" /\ pc'[p] # "wc_done"
                 /\ ret[p].ok
                 /\ call[p].addr = a
     /\ \A p \in Procs :
          pc[p] = "wc_done" /\ pc'[p] # "wc_done" /\ ~ret[p].ok
            => /\ States(devices') = States(devices)
               /\ (p = UsrProc => ret'[p] = ret[p])
     /\ \A p \in Procs :
          pc[p] \in {"wc_connect", "wc_write", "wc_disconnect"}
            /\ pc'[p] # pc[p]
            => States(devices') = States(devices)
    ]_vars

\* a setter has returned the error of writeCommand, on a device whose
\* stored state an earlier setter had changed
C8_FailedSetterReturned ==
  /\ pc[UsrProc] = "returned"
  /\ ~ret[UsrProc].ok
  /\ \E a \in DOMAIN devices : devices[a].State # NewDeviceState

\* C9: look exclusivity. From a newly discovered device, after any
\* sequence of successful setter calls at most one of RGB, WhiteBalance
\* and Effect of the stored state is set.
C9_LookExclusive ==
  \A a \in DOMAIN devices :
    LET s == devices[a].State IN
      Cardinality({f \in {"RGB", "WhiteBalance", "Effect"} : s[f] # Nil}) <= 1

\* C10: a successful SetColor leaves RGB equal to the requested colour,
\* Effect and WhiteBalance unset, and PowerOn and Brightness as they were.
C10_SetColorClearsLooks ==
  [][\A p \in Procs :
       /\ pc[p] = "wc_done" /\ pc'[p] # "wc_done"
       /\ ret[p].ok
       /\ call[p].op = "SetColor"
       /\ Has(devices, call[p].addr)
       => LET old == devices[call[p].addr].State
              new == devices'[call[p].addr].State IN
            /\ new.RGB = call[p].arg
            /\ new.Effect = Nil
            /\ new.WhiteBalance = Nil
            /\ new.PowerOn = old.PowerOn
            /\ new.Brightness = old.Brightness
    ]_vars

\* SetColor has returned success on a device that had an effect set (its
\* speed is still recorded)
C10_ColorAfterEffect ==
  /\ pc[UsrProc] = "returned"
  /\ ret[UsrProc].ok
  /\ \E a \in DOMAIN devices :
       /\ devices[a].State.RGB \in RGBInputs
       /\ devices[a].State.EffectSpeed # Nil
       /\ devices[a].State.Effect = Nil
       /\ devices[a].State.WhiteBalance = Nil

\* ------------------------------------------ claims: effect orchestrator
\* the look fields of a DeviceState
Look(state) == <<state.RGB, state.WhiteBalance, state.Effect>>

\* a look that is a colour and nothing else
PureColor(state) ==
  state.RGB # Nil /\ state.WhiteBalance = Nil /\ state.Effect = Nil

\* C1: snapshot/restore chain. The chain starts with nothing in force and
\* the stored look a colour A, and runs undisturbed (every write succeeds,
\* each further command arrives before the revert timer has fired). Once a
\* colour command of it has been accepted, the first or a later one: the
\* snapshot is A, the marker names that command and its colour is the
\* stored look, the marker's timer is the only one alive (the old one is
\* cancelled). Once the revert has run, the marker is gone and the stored
\* look is A, not the colour of any override.
C1_SnapshotRestoreChain ==
  chain.clean /\ chain.base # Nil /\ PureColor(chain.base[1])
    => /\ chain.phase = "active" /\ chain.accepted >= 1
            /\ pc[IrcProc] \in {"hc_record", "idle"}
          => /\ activeEffect # Nil
             /\ LET t == activeEffect[1].Timer
                    a == timerAddr[t] IN
                  /\ a = selectedDevice
                  /\ Has(snapshots, a)
                  /\ snapshots[a] = chain.base[1]
                  /\ IsColor(activeEffect[1].Command)
                  /\ timers[t] \in {"pending", "fired"}
                  /\ (timers[t] = "pending"
                        => devices[a].State.RGB
                             = GetRGB(activeEffect[1].Command))
                  /\ \A u \in Timers \ {t} :
                       timers[u] # "pending" /\ pc[u] = "idle"
                  /\ (pc[IrcProc] = "hc_record"
                        => /\ activeEffect[1].Command = cmd[IrcProc].Command
                           /\ activeEffect[1].Username =
                                cmd[IrcProc].Username
                           /\ timers[t] = "pending")
       /\ chain.phase = "restored"
          => /\ activeEffect = Nil
             /\ Look(devices[selectedDevice].State) = Look(chain.base[1])
             /\ \A u \in Timers : timers[u] # "pending"

\* a chain of two accepted overrides of a white lamp has been reverted
C1_TwoOverridesReverted ==
  /\ chain.clean
  /\ chain.phase = "restored"
  /\ chain.accepted = 2
  /\ chain.base # Nil
  /\ chain.base[1].RGB = <<255, 255, 255>>
  /\ devices[selectedDevice].State.RGB = <<255, 255, 255>>

\* C2: liveness of the revert, its first half. While the integration
\* runs, a marker does not stay for ever once the viewer commands have
\* come to an end, whatever the outcome of each of them: again and again
\* the marker is clear or a command is being handled.
C2_MarkerEventuallyCleared ==
  []<>(activeEffect = Nil \/ pc[IrcProc] # "idle")

\* C3: cancelling the pending revert timer and installing its replacement
\* is atomic for every other request. At most one revert timer is pending;
\* outside the handler's own step from the new timer to the new marker it
\* is the timer the marker refers to; and the revert of an earlier
\* override does not clear the marker of a newer one.
C3_AtomicReschedule ==
  [][/\ Cardinality({t \in Timers : timers'[t] = "pending"}) <= 1
     /\ pc'[IrcProc] # "ex_marker"
          => \A t \in Timers :
               timers'[t] = "pending"
                 => activeEffect' # Nil /\ activeEffect'[1].Timer = t
     /\ \A t \in Timers :
          pc[t] = "rs_clear" /\ pc'[t] = "idle" /\ activeEffect # Nil
            /\ pc[IrcProc] # "ex_marker"
            => activeEffect[1].Timer = t
    ]_vars

\* C4: the snapshot slot never holds a look that a viewer override applied.
\* In these runs the streamer sets no look, so the streamer's look is the
\* one the device was created with, and every other look was applied by a
\* viewer override (a restore only writes back what the slot held).
C4_NoViewerLookInSnapshot ==
  \A a \in DOMAIN snapshots : Look(snapshots[a]) = Look(NewDeviceState)

\* -------------------------------------------------------- claims: hub
\* the codes of the replies handleCommand sends without calling a setter
RejectCodes ==
  {"INVALID_FORMAT", "DEVICE_NOT_SELECTED", "UNKNOWN_ACTION",
   "INVALID_PAYLOAD"}

\* a frame that is not a well-formed command: the envelope does not
\* decode, the action is unknown, or the payload is not an object with the
\* fields of the action
Malformed(m) ==
  \/ m.format # "json"
  \/ m.action \notin DOMAIN HubSetters
  \/ m.payload.kind # "fields"

\* C11: for a recognized hub command a state broadcast is enqueued if and
\* only if the setter returned success: when handleCommand ends after a
\* successful setter it has put one state_update on the broadcast channel
\* and sent no reply; after a failed setter it has put nothing there and
\* the COMMAND_FAILED reply went to the originating observer, whose queue
\* is the only one that may have changed; and no step of the handling
\* before that touches the broadcast channel.
C11_BroadcastIffSuccess ==
  [][/\ pc[HubProc] = "hub_done" /\ pc'[HubProc] = "idle"
          => IF ret[HubProc].ok
               THEN /\ Len(broadcast') = Len(broadcast) + 1
                    /\ broadcast'[Len(broadcast')].type = "state_update"
                    /\ SubSeq(broadcast', 1, Len(broadcast)) = broadcast
                    /\ reply' = NoReply
                    /\ send' = send
               ELSE /\ broadcast' = broadcast
                    /\ reply' = HubError(hubClient, "COMMAND_FAILED")
                    /\ \A c \in Clients \ {hubClient} : send'[c] = send[c]
     /\ pc[HubProc] # pc'[HubProc] /\ pc[HubProc] # "hub_done"
          => broadcast' = broadcast
    ]_vars

\* a command failed: its sender has the reply and nothing was broadcast
C11_FailedCommandReplied ==
  /\ reply.kind = "COMMAND_FAILED"
  /\ reply.user \in clients
  /\ send[reply.user].buf = <<ErrorMessage("COMMAND_FAILED")>>
  /\ broadcast = <<>>

\* C12: a frame with an unknown action, a malformed envelope or a
\* malformed payload, or one that arrives while no device is selected,
\* gets an error reply to its sender and nothing else: no setter is
\* entered, the link and the stored states are untouched, nothing is put
\* on the broadcast channel and no other observer's queue changes.
C12_InvalidFrameOnlyReplies ==
  [][\A c \in Clients, m \in HubFrames :
       HubCommand(c, m) /\ (Malformed(m) \/ selectedDevice = NoAddr)
         => /\ reply'.user = c
            /\ reply'.kind \in RejectCodes
            /\ pc' = pc
            /\ call' = call
            /\ devices' = devices
            /\ connections' = connections
            /\ broadcast' = broadcast
            /\ \A d \in Clients \ {c} : send'[d] = send[d]
    ]_vars

\* C13: every state_update put on the broadcast channel carries a state
\* that is stored for the device: the stored state at that moment, or the
\* one a setter whose write is confirmed is storing at that moment.
C13_BroadcastCarriesStoredState ==
  [][Len(broadcast') > Len(broadcast)
       => LET m == broadcast'[Len(broadcast')] IN
            m.type = "state_update"
              => m.state \in {devices[m.address].State}
                               \cup RacingStates(m.address)
    ]_vars

\* C14: in a fan-out every registered observer whose queue is full is
\* removed from the observer set and its queue closed, and every other
\* registered observer stays registered with the message appended to its
\* queue.
C14_ShedSaturatedOnly ==
  [][pc[HubProc] = "idle" /\ broadcast # <<>> /\ broadcast' = Tail(broadcast)
       => \A c \in clients :
            IF Len(send[c].buf) >= SendCap
              THEN c \notin clients' /\ send'[c].closed
              ELSE /\ c \in clients'
                   /\ ~send'[c].closed
                   /\ send'[c].buf = Append(send[c].buf, Head(broadcast))
    ]_vars

\* one observer was shed with its queue full while another one received
\* the state update
C14_OneShedOneServed ==
  \E c, d \in Clients :
    /\ c \notin clients /\ send[c].closed /\ Len(send[c].buf) = SendCap
    /\ send[c].buf[1].type = "error"
    /\ d \in clients
    /\ send[d].buf # <<>> /\ send[d].buf[1].type = "state_update"
    /\ broadcast = <<>>

\* ------------------------------------------------------ claims: cooldowns
\* the requester holds a role whose bypass the configuration enables
Privileged(badges) ==
  \/ "vip" \in badges /\ config.VIPBypassCooldown
  \/ "subscriber" \in badges /\ config.SubBypassCooldown
  \/ "moderator" \in badges /\ config.ModBypassCooldown

\* time since the last recorded command, of anyone and of one user
GlobalElapsed == now - LastGlobalCommand[1]
UserElapsed(u) == now - UserLastCommand[u]

\* the step is handleCommand turning the command down on a cooldown
Rejected(u) ==
  /\ reply'.kind \in {"global", "personal"}
  /\ reply'.user = u
  /\ UNCHANGED <<pc, exVars>>

\* C15 as stated: a command of a user without rank that arrives at
\* elapsed time e < userCooldown after that user's last recorded command
\* is rejected and the rejection reports remaining = userCooldown - e,
\* whatever the global cooldown is
C15_RemainingIsUserCooldown ==
  [][\A u \in Users, c \in CooldownCmds, badges \in CooldownBadges :
       ( /\ HandleCommand(IrcProc, u, c, badges)
         /\ ~Privileged(badges)
         /\ Has(UserLastCommand, u)
         /\ UserElapsed(u) < config.UserCooldown )
       => /\ Rejected(u)
          /\ reply'.remaining = config.UserCooldown - UserElapsed(u)]_vars

\* C15, amended: recording an accepted command starts both clocks, and a
\* command of the same user without rank at elapsed time e < userCooldown
\* is rejected: on the global check with remaining = globalCooldown - e'
\* while the time e' since the last recorded command of anyone is below
\* globalCooldown, otherwise on the user's own check with remaining =
\* userCooldown - e; the reply states the whole seconds of it
C15_SecondCommandRejected ==
  [][/\ HcRecord(IrcProc)
          => /\ LastGlobalCommand' = <<now>>
             /\ UserLastCommand'[cmd[IrcProc].Username] = now
     /\ \A u \in Users, c \in CooldownCmds, badges \in CooldownBadges :
          ( /\ HandleCommand(IrcProc, u, c, badges)
            /\ ~Privileged(badges)
            /\ Has(UserLastCommand, u)
            /\ UserElapsed(u) < config.UserCooldown )
          => /\ Rejected(u)
             /\ IF GlobalElapsed < config.GlobalCooldown
                  THEN /\ reply'.kind = "global"
                       /\ reply'.remaining
                            = config.GlobalCooldown - GlobalElapsed
                  ELSE /\ reply'.kind = "personal"
                       /\ reply'.remaining
                            = config.UserCooldown - UserElapsed(u)
             /\ reply'.seconds * Second <= reply'.remaining
             /\ reply'.remaining < (reply'.seconds + 1) * Second]_vars

\* a user's second command was turned down on the user's own cooldown,
\* under a global cooldown that had run out, with less than a second left
C15_PersonalRejection ==
  \E u \in Users :
    /\ reply.kind = "personal" /\ reply.user = u
    /\ config.GlobalCooldown > 0
    /\ Has(UserLastCommand, u)
    /\ GlobalElapsed >= config.GlobalCooldown
    /\ reply.remaining = config.UserCooldown - UserElapsed(u)
    /\ reply.remaining > 0 /\ reply.seconds = 0

\* C16: once a command has been recorded, a command of another user
\* without rank that arrives before globalCooldown has elapsed is rejected
\* on the global check with remaining = globalCooldown - elapsed; the
\* global check comes first, so a user inside both windows is rejected
\* with kind global
C16_GlobalCheckFirst ==
  [][\A v \in Users, c \in CooldownCmds, badges \in CooldownBadges :
       ( /\ HandleCommand(IrcProc, v, c, badges)
         /\ ~Privileged(badges)
         /\ LastGlobalCommand # Nil
         /\ GlobalElapsed < config.GlobalCooldown )
       => /\ Rejected(v)
          /\ reply'.kind = "global"
          /\ reply'.remaining = config.GlobalCooldown - GlobalElapsed]_vars

\* a user who never had a command accepted was turned down on the global
\* cooldown another user's command had started
C16_OtherUserRejected ==
  \E v \in Users :
    /\ reply.kind = "global" /\ reply.user = v
    /\ ~Has(UserLastCommand, v)
    /\ LastGlobalCommand # Nil
    /\ reply.remaining = config.GlobalCooldown - GlobalElapsed
    /\ reply.remaining < config.GlobalCooldown

\* C17: handleCommand invocations interleaved in any way, the cooldowns
\* are still enforced: when a command of a user without rank is recorded,
\* at least globalCooldown has elapsed since the last recorded command and
\* at least userCooldown since the last recorded command of that user
C17_CooldownsUnderConcurrency ==
  [][\A p \in IrcProcs :
       HcRecord(p)
       => /\ (config.GlobalCooldown > 0 /\ LastGlobalCommand # Nil)
               => GlobalElapsed >= config.GlobalCooldown
          /\ (config.UserCooldown > 0
                /\ Has(UserLastCommand, cmd[p].Username))
               => UserElapsed(cmd[p].Username) >= config.UserCooldown]_vars

C19_RecordedOnlyOnSuccess ==
  [][/\ (LastGlobalCommand' # LastGlobalCommand
           \/ UserLastCommand' # UserLastCommand)
          => /\ HcRecord(IrcProc)
             /\ activeEffect # Nil
             /\ activeEffect[1].Username = cmd[IrcProc].Username
             /\ activeEffect[1].Command = cmd[IrcProc].Command
             /\ devices[deviceAddr[IrcProc]].State.RGB
                  = GetRGB(cmd[IrcProc].Command)
             /\ reply'.kind = "success"
     /\ HcRecord(IrcProc)
          => /\ LastGlobalCommand' = <<now>>
             /\ Has(UserLastCommand', cmd[IrcProc].Username)
             /\ UserLastCommand'[cmd[IrcProc].Username]
                  = LastGlobalCommand'[1]
             /\ \A v \in Users \ {cmd[IrcProc].Username} :
                  /\ Has(UserLastCommand', v) = Has(UserLastCommand, v)
                  /\ Has(UserLastCommand, v)
                       => UserLastCommand'[v] = UserLastCommand[v]
     /\ reply'.kind \in {"global", "personal", "failed"}
          => UNCHANGED <<LastGlobalCommand, UserLastCommand>>]_vars

\* a second user's command has just been recorded at a later instant than
\* the first user's, whose timestamp stays
C19_SecondUserRecorded ==
  \E u, v \in Users :
    /\ u # v
    /\ reply.kind = "success" /\ reply.user = v
    /\ LastGlobalCommand = <<now>>
    /\ Has(UserLastCommand, v) /\ UserLastCommand[v] = now
    /\ Has(UserLastCommand, u) /\ UserLastCommand[u] < now

\* C20: a command rejected on a cooldown touches neither the device nor
\* the orchestrator: the catalogue with the stored DeviceState, the
\* connections, the snapshot slot, the marker, the revert timers and
\* every goroutine stay as they are and no setter is entered; the one
\* effect is a reply with the remaining wait and the kind of cooldown
C20_RejectionOnlyReplies ==
  [][\A u \in Users, c \in CooldownCmds, badges \in CooldownBadges :
       ( /\ HandleCommand(IrcProc, u, c, badges)
         /\ ~Privileged(badges)
         /\ \/ /\ LastGlobalCommand # Nil
               /\ GlobalElapsed < config.GlobalCooldown
            \/ /\ Has(UserLastCommand, u)
               /\ UserElapsed(u) < config.UserCooldown )
       => /\ UNCHANGED <<devVars, twVars, cdVars, wcVars, exVars, pc,
                         hubVars, config, packet, mu, process>>
          /\ reply'.kind \in {"global", "personal"}
          /\ reply'.user = u
          /\ reply'.remaining > 0
          /\ reply'.seconds = reply'.remaining \div Second]_vars

\* a command was rejected while an override was in force: the marker, its
\* pending timer and the snapshot are in place
C20_RejectedDuringOverride ==
  /\ reply.kind \in {"global", "personal"}
  /\ activeEffect # Nil
  /\ timers[activeEffect[1].Timer] = "pending"
  /\ Has(snapshots, selectedDevice)
  /\ devices[selectedDevice].State.RGB = GetRGB(activeEffect[1].Command)

\* ------------------------------------------- claims: errors and restore
\* C21: a viewer command with a name that is neither a colour nor an
\* effect ends in an error and leaves the orchestrator as it was: no step
\* of its handler changes the marker, the snapshot slot or the cooldown
\* timestamps, a revert timer that is pending stays pending, and the
\* device service is not entered
C21_FailedCommandLeavesOrchestrator ==
  [][( /\ IrcStep
       /\ cmd[IrcProc] # NoCmd
       /\ ~IsColor(cmd[IrcProc].Command)
       /\ ~IsEffect(cmd[IrcProc].Command) )
     => /\ UNCHANGED <<activeEffect, snapshots, cdVars, devVars>>
        /\ \A t \in Timers : timers[t] = "pending" => timers'[t] = "pending"
        /\ pc'[IrcProc] \in {"idle", "ex_check", "ex_snapshot", "ex_apply"}
        /\ call'[IrcProc] = NoCall]_vars

\* the look that is on the lamp: the setter called last decides it.
\* SetColor and SetWhiteBalance clear the other looks, SetEffect leaves
\* them, so an effect is the look whenever one is stored
ActiveLook(state) ==
  IF state.Effect # Nil
    THEN <<"effect", state.Effect[1], state.EffectSpeed>>
  ELSE IF state.WhiteBalance # Nil
    THEN <<"white", state.WhiteBalance>>
  ELSE <<"rgb", state.RGB>>

\* C22: once the revert timer has fired and the restoring write has
\* succeeded, the stored look is the look that was on the lamp when the
\* snapshot was captured: the same kind (colour, white balance, effect
\* with its speed) with the same values, whatever the streamer had set
C22_RestoredLookIsCapturedLook ==
  chain.clean /\ chain.phase = "restored" /\ chain.base # Nil
    => ActiveLook(devices[selectedDevice].State) = ActiveLook(chain.base[1])

\* C23: the restore is reliable when the link fails. Whenever the handler
\* of a revert timer clears the marker, the stored (last confirmed) look of
\* the device is the look of the snapshot; and a restoring write that has
\* failed after all its attempts does not go on to clear the marker (the
\* timer is the one the marker names)
C23_RestoreReliable ==
  [][\A t \in Timers :
       activeEffect # Nil /\ activeEffect[1].Timer = t
         => /\ RsClear(t) /\ Has(snapshots, timerAddr[t])
                 => Look(devices[timerAddr[t]].State)
                      = Look(snapshots[timerAddr[t]])
            /\ SetterReturn(t) /\ ~ret[t].ok => pc'[t] # "rs_clear"]_vars

\* C24: the marker is destroyed when its revert timer fires. When the
\* handler of a firing completes and the marker is still the one that
\* names this timer (no newer override was accepted meanwhile), no marker
\* remains, whichever device the timer was scheduled for and whatever the
\* snapshot store holds
C24_MarkerDestroyedByFiring ==
  [][\A t \in Timers :
       ( /\ pc[t] # "idle" /\ pc'[t] = "idle"
         /\ activeEffect # Nil /\ activeEffect[1].Timer = t )
       => activeEffect' = Nil]_vars

\* C25: Stop while an override is in force (the marker is set and its
\* revert timer is pending) cancels the timer and clears the marker and
\* writes no restore: when Stop returns the marker is absent, its timer is
\* not pending any more, the catalogue with every stored DeviceState, the
\* connections and every goroutine are as before (no setter is entered);
\* and a timer that was stopped does not fire
C25_StopCancelsWithoutRestore ==
  [][/\ ( /\ Stop
          /\ activeEffect # Nil
          /\ timers[activeEffect[1].Timer] = "pending" )
        => /\ activeEffect' = Nil
           /\ ~ircOn'
           /\ timers'[activeEffect[1].Timer] \in {"stopped", "unused"}
           /\ UNCHANGED <<devVars, snapshots, wcVars, pc>>
     /\ \A t \in Timers :
          timers[t] = "stopped" => timers'[t] # "fired" /\ pc'[t] = "idle"
    ]_vars

\* the integration was stopped while the lamp showed a viewer's red: no
\* marker, no timer pending, no goroutine running, the lamp still red and
\* the streamer's look still in the snapshot
C25_StoppedDuringOverride ==
  /\ ~ircOn
  /\ activeEffect = Nil
  /\ \A t \in Timers : timers[t] # "pending"
  /\ \A p \in Procs : pc[p] = "idle"
  /\ selectedDevice # NoAddr
  /\ Has(snapshots, selectedDevice)
  /\ snapshots[selectedDevice].RGB = <<255, 255, 255>>
  /\ devices[selectedDevice].State.RGB = GetRGB("red")
  /\ LastGlobalCommand # Nil

\* C26: every confirmed state mutation is followed by a state broadcast,
\* whichever actor caused it: once a setter called for a viewer's override
\* or for the revert timer's restore has succeeded, a state_update is
\* eventually on the hub's broadcast channel
C26_MutationIsBroadcast ==
  (\E p \in RunProcs : pc[p] = "wc_done" /\ ret[p].ok)
    ~> (\E i \in DOMAIN broadcast : broadcast[i].type = "state_update")

RecordedHandles == {connections[a] : a \in DOMAIN connections}

\* C28: exactly one connection handle per address, under every
\* interleaving of concurrent connect, writeCommand and Disconnect calls.
\* The adapter's Connect is never called for an address that has a
\* recorded handle: connect returns the recorded one. A handle the
\* adapter returns is a new one and is recorded in the same step; a handle
\* leaves the map only in the step in which the adapter has disconnected
\* it. So the live handles are the recorded ones, one per address.
C28_OneHandlePerAddress ==
  [][/\ link'.op = "Connect" => ~Has(connections, link'.addr)
     /\ \A p \in LinkProcs :
          connect(p) /\ Has(connections, call[p].addr)
            => /\ link'.op = "cached"
               /\ conn'[p] = connections[call[p].addr]
               /\ UNCHANGED connections
     /\ link'.op = "Connect" /\ link'.ok
          => /\ link'.handle \notin RecordedHandles
             /\ connections' = Put(connections, link'.addr, link'.handle)
     /\ connections' # connections
          => \/ link'.op = "Connect" /\ link'.ok
             \/ /\ link'.op = "Disconnect" /\ link'.ok
                /\ Has(connections, link'.addr)
                /\ link'.handle = connections[link'.addr]
                /\ connections' = Del(connections, link'.addr)]_vars

\* a caller's connect has just returned the handle another caller had
\* opened and is writing on
C28_SharedHandle ==
  /\ link.op = "cached"
  /\ \E p, q \in LinkProcs :
       /\ p # q
       /\ pc[p] = "wc_write" /\ pc[q] = "wc_write"
       /\ conn[p] = conn[q] /\ conn[p] # NoHandle
       /\ connections[call[p].addr] = conn[p]
       /\ call[q].addr = call[p].addr

\* C29: a setter called with an address that is not in the catalogue is
\* rejected at once, with no retry and no device interaction: while such
\* a call is in progress the adapter's Connect and Write are not called
\* for its address, no handle is recorded for it and no attempt is made
C29_UnknownAddressRejected ==
  \A p \in DeviceProcs :
    call[p] # NoCall /\ ~Has(devices, call[p].addr)
      => /\ ~(link.op \in AdapterOps /\ link.addr = call[p].addr)
         /\ ~Has(connections, call[p].addr)
         /\ pc[p] \notin {"wc_write", "wc_disconnect"}
         /\ attempt[p] = 0

\* C29, as the code has it: a setter called with an address that is not
\* in the catalogue is not rejected. It runs writeCommand as for any
\* address: connect calls the adapter's Connect when no handle is
\* recorded and records the handle, Write calls the adapter's Write, the
\* setter returns what writeCommand returned. Only the stored state is
\* left out: no step of the call adds the address to the catalogue
C29_UnknownAddressWritten ==
  [][\A p \in DeviceProcs :
       call[p] # NoCall /\ ~Has(devices, call[p].addr)
         => /\ connect(p) /\ ~Has(connections, call[p].addr)
                 => /\ link'.op = "Connect" /\ link'.addr = call[p].addr
                    /\ link'.ok => /\ Has(connections', call[p].addr)
                                   /\ pc'[p] = "wc_write"
            /\ Write(p)
                 => /\ link'.op = "Write" /\ link'.addr = call[p].addr
                    /\ link'.ok <=> pc'[p] = "wc_done" /\ ret'[p].ok
            /\ SetterReturn(p) => ret'[p] = ret[p] /\ pc'[p] = "returned"
            /\ connect(p) \/ Write(p) \/ Disconnect(p) \/ Exhausted(p)
                 \/ SetterReturn(p)
                 => UNCHANGED devices]_vars

\* a setter has returned success for an address that is in no catalogue:
\* its handle is recorded, the catalogue is empty
C29_UnknownAddressServed ==
  /\ pc[UsrProc] = "returned"
  /\ ret[UsrProc].ok
  /\ devices = <<>>
  /\ connections # <<>>

\* ------------------------------------------------- claims: frame format
\* C30: every encoder (power, RGB, white balance, single preset colour,
\* brightness, built-in effect) returns, for every input, a frame of
\* exactly 9 bytes whose byte 0 is 0x7E, byte 1 is 0x00, byte 7 is 0x00
\* and byte 8 is 0xEF
C30_FrameFormat ==
  packet # NoPacket
    => /\ Len(packet) = 9
       /\ packet[1] = 126
       /\ packet[2] = 0
       /\ packet[8] = 0
       /\ packet[9] = 239
       /\ \A i \in 1..9 : packet[i] \in 0..255

\* the effect encoder has returned the frame of effect 1 at full speed
C30_EffectFrame ==
  /\ packet # NoPacket
  /\ packet[3] = CmdEffect
  /\ packet[4] = 1
  /\ packet[5] = 255

\* C31: the power encoder returns [7E 00 04 F0 00 01 FF 00 EF] for on and
\* [7E 00 04 00 00 00 FF 00 EF] for off
C31_PowerFrames ==
  [][EncodePower
       => /\ packet' \in {<<126, 0, 4, 240, 0, 1, 255, 0, 239>>,
                          <<126, 0, 4, 0, 0, 0, 255, 0, 239>>}
          /\ packet' = Bytes(NewPowerCommand(TRUE))
               => packet' = <<126, 0, 4, 240, 0, 1, 255, 0, 239>>
          /\ packet' = Bytes(NewPowerCommand(FALSE))
               => packet' = <<126, 0, 4, 0, 0, 0, 255, 0, 239>>]_vars

\* the power encoder has returned the frame of "on"
C31_PowerOnFrame == packet = <<126, 0, 4, 240, 0, 1, 255, 0, 239>>

\* C32: for all 8-bit parameter values each parametrised encoder equals
\* its row of the frame table: RGB(r,g,b) = [7E,00,05,03,r,g,b,00,EF],
\* whiteBalance(w,c) = [7E,00,05,02,w,c,FF,00,EF], singleColor(i) =
\* [7E,00,05,01,i,FF,FF,00,EF], brightness(l) = [7E,00,01,l,FF,FF,FF,00,EF],
\* effect(e,s) = [7E,00,03,e,s,FF,FF,00,EF]
C32_FrameTable ==
  [][/\ \A r \in ByteInputs, g \in ByteInputs, b \in ByteInputs :
          packet' = Bytes(NewRGBCommand(r, g, b)) /\ EncodeRGB
            => packet' = <<126, 0, 5, 3, r, g, b, 0, 239>>
     /\ \A w \in ByteInputs, c \in ByteInputs :
          packet' = Bytes(NewWhiteBalanceCommand(w, c)) /\ EncodeWhiteBalance
            => packet' = <<126, 0, 5, 2, w, c, 255, 0, 239>>
     /\ \A i \in ByteInputs :
          packet' = Bytes(NewSingleColorCommand(i)) /\ EncodeSingleColor
            => packet' = <<126, 0, 5, 1, i, 255, 255, 0, 239>>
     /\ \A l \in ByteInputs :
          packet' = Bytes(NewBrightnessCommand(l)) /\ EncodeBrightness
            => packet' = <<126, 0, 1, l, 255, 255, 255, 0, 239>>
     /\ \A e \in ByteInputs, sp \in ByteInputs :
          packet' = Bytes(NewEffectCommand(e, sp)) /\ EncodeEffect
            => packet' = <<126, 0, 3, e, sp, 255, 255, 0, 239>>]_vars

\* the white balance encoder has returned the frame of warm 1, cold 128
C32_WhiteBalanceFrame == packet = <<126, 0, 5, 2, 1, 128, 255, 0, 239>>

C34_EffectPerDevice ==
  [][\A p \in IrcProcs :
       LET other == /\ activeEffect # Nil
                    /\ activeEffect[1].Timer # NoTimer
                    /\ timerAddr[activeEffect[1].Timer] # deviceAddr[p]
       IN  /\ ExCancel(p) /\ other
                /\ timers[activeEffect[1].Timer] = "pending"
             => timers'[activeEffect[1].Timer] = "pending"
           /\ ExCheck(p) /\ other => shouldSnapshot'[p]
           /\ ExMarker(p) /\ other => activeEffect' = activeEffect]_vars

\* ------------------------------------------------- claims: registry lock
\* the goroutine is inside a blocking call of the link adapter
InAdapterCall(p) == pc[p] \in {"cn_adapter", "wc_write", "sc_adapter"}

\* C35: the blocking link operations (adapter write, scan, connect) run
\* while no lock on the registry is held: a goroutine inside one of them
\* does not hold s.mu, so no GetDevice or ListDevices waits for the lock
\* for the duration of such a call
C35_LinkOutsideLock ==
  /\ \A p \in Procs : InAdapterCall(p) => mu # p
  /\ pc[HubProc] = "gd_rlock" /\ mu # NoProc => ~InAdapterCall(mu)

\* -------------------------------------------------- claims: the hub loop
\* C36: the hub serialises the observers' commands. Frames leave the
\* process channel in the order they were submitted, one at a time and
\* only while the loop is between two cases; the frame that leaves is the
\* one handleCommand is called on; and while a hub-dispatched setter is
\* in progress the loop takes no further frame and runs no registration,
\* no unregistration and no broadcast fan-out
C36_HubSerialisesCommands ==
  [][/\ \/ process' = process
        \/ process # <<>> /\ process' = Tail(process)
        \/ /\ Len(process') = Len(process) + 1
           /\ SubSeq(process', 1, Len(process)) = process
     /\ process # <<>> /\ process' = Tail(process)
          => /\ pc[HubProc] = "idle"
             /\ LET c == Head(process).client
                    m == Head(process).message
                IN  \/ /\ pc'[HubProc] = "wc_connect"
                       /\ hubClient' = c
                       /\ call'[HubProc].op = HubSetters[m.action]
                       /\ call'[HubProc].arg
                            = UnmarshalPayload(m.action, m.payload).arg
                    \/ /\ pc'[HubProc] = "idle"
                       /\ reply'.user = c
                       /\ reply'.kind # "none"
     /\ pc[HubProc] # "idle"
          => /\ Len(process') >= Len(process)
             /\ UNCHANGED clients
             /\ \A c \in Clients : send'[c].closed = send[c].closed
             /\ Len(broadcast') >= Len(broadcast)]_vars

\* two observers' frames wait in the channel while the setter of an
\* earlier frame is in progress
C36_TwoWaitingBehindOne ==
  /\ pc[HubProc] = "wc_connect"
  /\ Len(process) = 2
  /\ process[1].client # process[2].client
  /\ process[1].message # process[2].message

\* C37: observer-set consistency. An observer in the set has an open
\* queue; it enters the set only by being registered (with a new, open
\* queue) and leaves it exactly in the step that closes its queue, so a
\* queue is closed only while its observer is in the set, hence once: an
\* unregister request for an observer that is not in the set (shed by
\* backpressure before) changes nothing. A message is only ever enqueued
\* to an observer that is in the set
C37_ObserverSetConsistent ==
  [][\A c \in Clients :
       /\ c \in clients' => ~send'[c].closed
       /\ c \notin clients /\ c \in clients'
            => Register(c) /\ send'[c] = NewQueue
       /\ (c \in clients /\ c \notin clients')
            <=> (~send[c].closed /\ send'[c].closed)
       /\ Unregister(c) /\ c \notin clients => UNCHANGED <<clients, send>>
       /\ Len(send'[c].buf) > Len(send[c].buf)
            => c \in clients /\ ~send[c].closed]_vars

\* one observer is registered and holds a message in its open queue; the
\* other has left the set and its queue is closed and holds nothing
C37_OneInOneClosed ==
  /\ clients = {"c1"}
  /\ ~send["c1"].closed /\ send["c1"].buf # <<>>
  /\ send["c1"].buf[1].type = "state_update"
  /\ send["c2"].closed /\ send["c2"].buf = <<>>

\* C38: the hub loop never blocks forever. Every command the loop has
\* started to process completes and the loop is back at its select, also
\* when other goroutines enqueue broadcasts meanwhile and the loop itself
\* enqueues the state broadcast at the end of a successful command
C38_HubLoopReturns == pc[HubProc] # "idle" ~> pc[HubProc] = "idle"

\* ---- claims: connected flag ----

\* C39: in every reachable state, every address of the device catalogue has
\* its connected flag set exactly when a connection handle is recorded for
\* that address.
C39_ConnectedIffHandle ==
  \A a \in DOMAIN devices : devices[a].Connected <=> Has(connections, a)

\* ---- claims: concurrent writes ----

\* C40: with two concurrent writeCommand calls, no adapter write is issued
\* on a handle that another call's failure handling has passed to the
\* adapter's disconnect primitive. A call drops its own handle when it
\* disconnects, and a handle leaves s.connections only when Disconnect has
\* handed it to the adapter, so the handle a call writes on is the one
\* still recorded for its address.
C40_NoWriteAfterDisconnect ==
  [][\A q \in LinkProcs :
       (pc[q] = "wc_write" /\ pc'[q] # "wc_write" /\ link'.op = "Write")
         => conn[q] = Recorded(call[q].addr)]_vars

====
